---- MODULE Spec2Model ----
(***************************************************************************)
(* A model of pt-tools (UCLALibrary/pt-tools): the identifier codec, the   *)
(* archive engine (TarGz / UnTarGz) and the cp / mv commands, over an      *)
(* explicit model of the filesystem.                                       *)
(*                                                                         *)
(* Strings are sequences of one-character strings.  A fixed word none of   *)
(* whose characters the code looks at one by one (pairtree_root, tgz,      *)
(* temporary) is written as a single token.                                *)
(***************************************************************************)
EXTENDS Integers, Sequences, FiniteSets, TLC

VARIABLES fs, last, exported, history, pkg, steps

vars == <<fs, last, exported, history, pkg, steps>>

(***************************************************************************)
(* Bounds of the model                                                     *)
(***************************************************************************)
\* longest identifier remainder (after the prefix) handed to CreatePP
MaxIdLen == 3
\* longest string handed to EncodeChar
MaxEncLen == 3
\* calls of TarGz / UnTarGz in one behaviour
MaxCalls == 2
\* calls of CopyFileOrFolder / GetUniqueDestination in one behaviour
MaxCopies == 2
\* exports of an object with TarGz in one behaviour
MaxExports == 3
\* runs of ptrm in one process
MaxRuns == 2

(***************************************************************************)
(* Strings                                                                 *)
(***************************************************************************)
Sep == "/"

RECURSIVE StringsUpTo(_, _)
StringsUpTo(A, n) ==
    IF n = 0 THEN {<<>>}
    ELSE LET S == StringsUpTo(A, n - 1)
         IN S \cup {Append(s, c) : s \in {t \in S : Len(t) = n - 1}, c \in A}

\* strings.HasPrefix
HasPrefix(s, p) == Len(p) <= Len(s) /\ SubSeq(s, 1, Len(p)) = p

\* strings.HasSuffix
HasSuffix(s, p) == Len(p) <= Len(s) /\ SubSeq(s, Len(s) - Len(p) + 1, Len(s)) = p

\* strings.TrimPrefix
TrimPrefix(s, p) == IF HasPrefix(s, p) THEN SubSeq(s, Len(p) + 1, Len(s)) ELSE s

\* strings.TrimSuffix
TrimSuffix(s, p) == IF HasSuffix(s, p) THEN SubSeq(s, 1, Len(s) - Len(p)) ELSE s

IsSpace(c) == c \in {" ", "\t", "\n"}

\* strings.TrimSpace
RECURSIVE TrimSpace(_)
TrimSpace(s) ==
    IF s = <<>> THEN s
    ELSE IF IsSpace(Head(s)) THEN TrimSpace(Tail(s))
    ELSE IF IsSpace(s[Len(s)]) THEN TrimSpace(SubSeq(s, 1, Len(s) - 1))
    ELSE s

(***************************************************************************)
(* Paths (path/filepath)                                                   *)
(***************************************************************************)
\* The components of a path string: the non-empty pieces between
\* separators, with "." dropped and ".." cancelling the component before it
\* (filepath.Clean's rules).
RECURSIVE SplitFrom(_, _, _)
SplitFrom(s, cur, acc) ==
    LET push == IF cur = <<>> \/ cur = <<".">> THEN acc
                ELSE IF cur = <<".", ".">>
                     THEN (IF acc = <<>> THEN acc ELSE SubSeq(acc, 1, Len(acc) - 1))
                     ELSE Append(acc, cur)
    IN IF s = <<>> THEN push
       ELSE IF Head(s) = Sep THEN SplitFrom(Tail(s), <<>>, push)
       ELSE SplitFrom(Tail(s), Append(cur, Head(s)), acc)

Comps(s) == SplitFrom(s, <<>>, <<>>)

IsAbs(s) == s # <<>> /\ s[1] = Sep

RECURSIVE Unsplit(_)
Unsplit(cs) ==
    IF cs = <<>> THEN <<>>
    ELSE IF Len(cs) = 1 THEN cs[1]
    ELSE cs[1] \o <<Sep>> \o Unsplit(Tail(cs))

\* filepath.Clean: the shortest equivalent path
Clean(s) ==
    IF IsAbs(s) THEN <<Sep>> \o Unsplit(Comps(s))
    ELSE IF Comps(s) = <<>> THEN <<".">>
    ELSE Unsplit(Comps(s))

\* filepath.Join of two elements: empty elements are ignored, the result is
\* cleaned, and joining only empty elements gives the empty string
Join(a, b) ==
    IF a = <<>> /\ b = <<>> THEN <<>>
    ELSE IF a = <<>> THEN Clean(b)
    ELSE IF b = <<>> THEN Clean(a)
    ELSE Clean(a \o <<Sep>> \o b)

(***************************************************************************)
(* Identifier codec                                                        *)
(***************************************************************************)
rootDir == <<"pairtree_root">>
PtPrefix == <<"p", "t", ":", "/", "/">>

\* the characters EncodeChar writes as ^ and two hexadecimal digits
HexOf(c) ==
    CASE c = " "  -> <<"2", "0">>
      [] c = "\"" -> <<"2", "2">>
      [] c = "*"  -> <<"2", "a">>
      [] c = "+"  -> <<"2", "b">>
      [] c = ","  -> <<"2", "c">>
      [] c = "<"  -> <<"3", "c">>
      [] c = "="  -> <<"3", "d">>
      [] c = ">"  -> <<"3", "e">>
      [] c = "?"  -> <<"3", "f">>
      [] c = "\\" -> <<"5", "c">>
      [] c = "^"  -> <<"5", "e">>
      [] c = "|"  -> <<"7", "c">>

HexEncoded == {" ", "\"", "*", "+", ",", "<", "=", ">", "?", "\\", "^", "|"}

\* a variant of EncodeRune that leaves '=' and '^' alone
EncodeRuneNoEscape(r) ==
    IF r \in HexEncoded \ {"=", "^"} THEN <<"^">> \o HexOf(r)
    ELSE IF r = "/" THEN <<"=">>
    ELSE IF r = ":" THEN <<"+">>
    ELSE IF r = "." THEN <<",">>
    ELSE <<r>>

\* one iteration of EncodeChar's loop: the switch on the rune
EncodeRune(r) ==
    IF r \in HexEncoded THEN <<"^">> \o HexOf(r)
    ELSE IF r = "/" THEN <<"=">>
    ELSE IF r = ":" THEN <<"+">>
    ELSE IF r = "." THEN <<",">>
    ELSE <<r>>

RECURSIVE EncodeChar(_)
EncodeChar(id) ==
    IF id = <<>> THEN <<>> ELSE EncodeRune(Head(id)) \o EncodeChar(Tail(id))

\* caltech_pairtree.CharEncode: the same table as EncodeChar
CharEncode(id) == EncodeChar(id)

\* the two-character groups of an encoded identifier, in order
RECURSIVE Pairs(_)
Pairs(e) ==
    IF e = <<>> THEN <<>>
    ELSE IF Len(e) <= 2 THEN <<e>>
    ELSE <<SubSeq(e, 1, 2)>> \o Pairs(SubSeq(e, 3, Len(e)))

\* a variant of Encode that groups the identifier before encoding it
EncodeRawPairs(id) ==
    LET gs == Pairs(id)
    IN IF gs = <<>> THEN <<>>
       ELSE Unsplit([i \in 1..Len(gs) |-> CharEncode(gs[i])]) \o <<Sep>>

\* caltech_pairtree.Encode: the pairpath of an identifier, each group
\* followed by a separator
Encode(id) ==
    LET gs == Pairs(CharEncode(id))
    IN IF gs = <<>> THEN <<>> ELSE Unsplit(gs) \o <<Sep>>

\* a variant of CreatePP that looks at the id before the root
CreatePPIdFirst(id, ptRoot, prefix) ==
    IF TrimSpace(id) = <<>> THEN [path |-> <<>>, err |-> "Err4"]
    ELSE IF TrimSpace(ptRoot) = <<>> THEN [path |-> <<>>, err |-> "Err3"]
    ELSE IF ~HasPrefix(id, prefix) THEN [path |-> <<>>, err |-> "Err5"]
    ELSE LET rest == TrimPrefix(id, prefix)
             pairPath == Encode(rest)
             enc == CharEncode(rest)
         IN [path |-> Join(Join(ptRoot, rootDir), Join(pairPath, enc)),
             err |-> "nil"]

\* CreatePP: [path, err]
CreatePP(id, ptRoot, prefix) ==
    IF TrimSpace(ptRoot) = <<>> THEN [path |-> <<>>, err |-> "Err3"]
    ELSE IF TrimSpace(id) = <<>> THEN [path |-> <<>>, err |-> "Err4"]
    ELSE IF ~HasPrefix(id, prefix) THEN [path |-> <<>>, err |-> "Err5"]
    ELSE LET rest == TrimPrefix(id, prefix)
             pairPath == Encode(rest)
             enc == CharEncode(rest)
         IN [path |-> Join(Join(ptRoot, rootDir), Join(pairPath, enc)),
             err |-> "nil"]

(***************************************************************************)
(* The filesystem                                                          *)
(*                                                                         *)
(* fs maps the component list of every existing path to its node; the      *)
(* root directory <<>> always exists.  The working directory is the root,  *)
(* so a relative path and the absolute one name the same entry.  A file's  *)
(* bytes are its data and, for a .tgz archive, the entries packed in it.   *)
(***************************************************************************)
DirNode == [kind |-> "dir", data |-> <<>>, tar |-> {}]

FileNode(d) == [kind |-> "file", data |-> d, tar |-> {}]

TgzMagic == <<"tgz">>

TgzNode(entries) == [kind |-> "file", data |-> TgzMagic, tar |-> entries]

\* q is p or lies below p
Under(p, q) == HasPrefix(q, p)

Parent(p) == SubSeq(p, 1, Len(p) - 1)

Prefixes(p) == {SubSeq(p, 1, i) : i \in 1..Len(p)}

\* os.Stat(path) succeeds
Exists(f, p) == p = <<>> \/ p \in DOMAIN f

IsDir(f, p) == p = <<>> \/ (p \in DOMAIN f /\ f[p].kind = "dir")

IsFile(f, p) == p \in DOMAIN f /\ f[p].kind = "file"

\* some path component of p is a file: every access below it fails (ENOTDIR)
Blocked(f, p) == \E q \in Prefixes(p) : q # p /\ IsFile(f, q)

\* the tree below p, by relative path (p itself is <<>>)
Subtree(f, p) ==
    [rel \in {SubSeq(q, Len(p) + 1, Len(q)) : q \in {k \in DOMAIN f : Under(p, k)}}
        |-> f[p \o rel]]

\* f with the entries of g added or replaced
Overlay(f, g) ==
    [k \in DOMAIN f \cup DOMAIN g |-> IF k \in DOMAIN g THEN g[k] ELSE f[k]]

\* os.RemoveAll(path): path and everything below it; the empty path is a no-op
RemoveAll(f, p) ==
    IF p = <<>> THEN f
    ELSE [k \in {q \in DOMAIN f : ~Under(p, q)} |-> f[k]]

\* os.MkdirAll(path): [fs, ok]; fails when a component is a file
MkdirAll(f, p) ==
    IF \E q \in Prefixes(p) : IsFile(f, q) THEN [fs |-> f, ok |-> FALSE]
    ELSE [fs |-> Overlay(f, [q \in {k \in Prefixes(p) : ~Exists(f, k)} |-> DirNode]),
          ok |-> TRUE]

\* os.ReadDir / afero.ReadDir: the immediate children of a directory
ReadDir(f, p) ==
    {[name |-> k[Len(k)], isDir |-> f[k].kind = "dir"] :
        k \in {q \in DOMAIN f : Len(q) = Len(p) + 1 /\ Under(p, q)}}

\* filepath.Base: the last element of the path string, trailing separators
\* removed first; "." for the empty path
RECURSIVE StripSeps(_)
StripSeps(s) ==
    IF s # <<>> /\ s[Len(s)] = Sep THEN StripSeps(SubSeq(s, 1, Len(s) - 1)) ELSE s

RECURSIVE AfterLastSep(_)
AfterLastSep(s) ==
    IF s = <<>> \/ s[Len(s)] = Sep THEN <<>>
    ELSE Append(AfterLastSep(SubSeq(s, 1, Len(s) - 1)), s[Len(s)])

Base(s) ==
    IF s = <<>> THEN <<".">>
    ELSE IF StripSeps(s) = <<>> THEN <<Sep>>
    ELSE AfterLastSep(StripSeps(s))

\* filepath.Dir: all but the last element of the path string, cleaned; a
\* path ending in a separator is its own Dir
Dir(s) == Clean(SubSeq(s, 1, Len(s) - Len(AfterLastSep(s))))

(***************************************************************************)
(* Libraries: otiai10/copy and mholt/archiver                              *)
(*                                                                         *)
(* Every call returns [fs, ok, defined].  defined is FALSE for the one     *)
(* input whose outcome is not modelled: a tree copied or archived into     *)
(* itself.                                                                 *)
(***************************************************************************)
Key(s) == Comps(s)

\* os.IsNotExist(err) for the error of os.Stat(path): the path is absent and
\* no component of it is a file (that error is ENOTDIR, not ENOENT)
NotExist(f, p) == ~Exists(f, p) /\ ~Blocked(f, p)

\* os.Stat of a path string succeeds; the empty string names nothing
StatOk(f, s) == s # <<>> /\ Exists(f, Key(s))

StatNotExist(f, s) == s = <<>> \/ NotExist(f, Key(s))

StatIsDir(f, s) == s # <<>> /\ IsDir(f, Key(s))

\* the entries below src, moved below dst
Moved(f, src, dst) ==
    [k \in {dst \o SubSeq(q, Len(src) + 1, Len(q)) : q \in {x \in DOMAIN f : Under(src, x)}}
        |-> f[src \o SubSeq(k, Len(dst) + 1, Len(k))]]

\* copy.Copy(src, dest): a file is written over dest, a directory is merged
\* into dest (entries of dest that src does not have stay)
Copy(f, src, dst) ==
    IF ~Exists(f, src) \/ src = <<>> THEN [fs |-> f, ok |-> FALSE, defined |-> TRUE]
    ELSE IF Under(src, dst) THEN [fs |-> f, ok |-> FALSE, defined |-> FALSE]
    ELSE IF IsFile(f, src)
    THEN LET m == MkdirAll(f, Parent(dst))
         IN IF ~m.ok \/ dst = <<>> \/ IsDir(f, dst)
            THEN [fs |-> f, ok |-> FALSE, defined |-> TRUE]
            ELSE [fs |-> Overlay(m.fs, [k \in {dst} |-> f[src]]), ok |-> TRUE,
                  defined |-> TRUE]
    ELSE LET m == MkdirAll(f, dst)
             new == Moved(f, src, dst)
         IN IF ~m.ok \/ \E k \in DOMAIN new : Exists(f, k) /\ f[k].kind # new[k].kind
            THEN [fs |-> f, ok |-> FALSE, defined |-> TRUE]
            ELSE [fs |-> Overlay(m.fs, new), ok |-> TRUE, defined |-> TRUE]

\* what an archive of src holds: src's tree under src's base name
EntriesOf(f, src) ==
    {[p |-> <<src[Len(src)]>> \o SubSeq(q, Len(src) + 1, Len(q)), n |-> f[q]] :
        q \in {x \in DOMAIN f : Under(src, x)}}

\* archiver.NewTarGz().Archive([src], dest): refuses an existing dest, makes
\* dest's directory, creates dest and then walks src
Archive(f, src, dst) ==
    IF dst = <<>> \/ Exists(f, dst) THEN [fs |-> f, ok |-> FALSE, defined |-> TRUE]
    ELSE IF src # <<>> /\ Under(src, dst) THEN [fs |-> f, ok |-> FALSE, defined |-> FALSE]
    ELSE LET m == MkdirAll(f, Parent(dst))
         IN IF ~m.ok THEN [fs |-> f, ok |-> FALSE, defined |-> TRUE]
            ELSE IF ~Exists(f, src) \/ src = <<>>
            THEN [fs |-> Overlay(m.fs, [k \in {dst} |-> FileNode(<<>>)]),
                  ok |-> FALSE, defined |-> TRUE]
            ELSE [fs |-> Overlay(m.fs, [k \in {dst} |-> TgzNode(EntriesOf(f, src))]),
                  ok |-> TRUE, defined |-> TRUE]

\* the entries of an archive laid out below dir, with the directories that
\* lead to them
Extracted(entries, dir) ==
    LET paths == {e.p : e \in entries}
        all == UNION {Prefixes(p) : p \in paths}
    IN [k \in {dir \o p : p \in all} |->
          LET rel == SubSeq(k, Len(dir) + 1, Len(k))
          IN IF rel \in paths THEN (CHOOSE e \in entries : e.p = rel).n ELSE DirNode]

\* archiver.TarGz{OverwriteExisting: true}.Unarchive(src, dir)
Unarchive(f, src, dir) ==
    IF ~IsFile(f, src) \/ f[src].data # TgzMagic
    THEN [fs |-> f, ok |-> FALSE, defined |-> TRUE]
    ELSE [fs |-> Overlay(f, Extracted(f[src].tar, dir)), ok |-> TRUE, defined |-> TRUE]

(***************************************************************************)
(* pkg/pairtree: the filesystem functions                                  *)
(*                                                                         *)
(* Every function returns [fs, err, out, temp, defined]: the filesystem it *)
(* leaves, its error ("nil" for none), the path it returns, and the        *)
(* temporary directory it created (<<>> for none).  fault names the one    *)
(* system call that fails in this run for a reason outside the model       *)
(* (permissions, a full disk), "none" when all succeed.                    *)
(***************************************************************************)
verDir == <<"pairtree_version0_1">>
prefixDir == <<"pairtree_prefix">>
tar == <<".", "tgz">>
TempRoot == <<<<"tmp">>>>
TempName == <<"temporary">>

Ret(f, e) == [fs |-> f, err |-> e, out |-> <<>>, temp |-> <<>>, defined |-> TRUE]

\* GetPrefix: [prefix, err]
GetPrefix(f, ptRoot) ==
    LET path == Key(Join(ptRoot, prefixDir))
    IN IF NotExist(f, path) THEN [prefix |-> <<>>, err |-> "nil"]
       ELSE IF ~IsFile(f, path) THEN [prefix |-> <<>>, err |-> "io"]
       ELSE IF Len(f[path].data) = 0 THEN [prefix |-> <<>>, err |-> "Err1"]
       ELSE [prefix |-> f[path].data, err |-> "nil"]

\* CheckPTVer: the error
CheckPTVer(f, ptRoot) ==
    LET path == Key(Join(ptRoot, verDir))
    IN IF NotExist(f, path) THEN "ErrNotExist"
       ELSE IF ~Exists(f, path) THEN "io"
       ELSE IF IsFile(f, path) /\ Len(f[path].data) = 0 THEN "Err2"
       ELSE "nil"

\* CreateDirNotExist: [fs, err]
CreateDirNotExist(f, path) ==
    IF path = <<>> THEN [fs |-> f, err |-> "Err15"]
    ELSE LET m == MkdirAll(f, Key(path))
         IN [fs |-> m.fs, err |-> IF m.ok THEN "nil" ELSE "io"]

\* filepath.Ext: the suffix of the last element from its last dot on
RECURSIVE Ext(_)
Ext(s) ==
    IF s = <<>> \/ s[Len(s)] = Sep THEN <<>>
    ELSE IF s[Len(s)] = "." THEN <<".">>
    ELSE LET e == Ext(SubSeq(s, 1, Len(s) - 1))
         IN IF e = <<>> THEN <<>> ELSE Append(e, s[Len(s)])

\* fmt's %d
RECURSIVE Dec(_)
Dec(n) ==
    LET d == <<"0", "1", "2", "3", "4", "5", "6", "7", "8", "9">>[(n % 10) + 1]
    IN IF n < 10 THEN <<d>> ELSE Append(Dec(n \div 10), d)

\* the loop of GetUniqueDestination, from counter on
\* a variant of Probe that takes the name the counter gives without a look
ProbeUnseen(f, dir, baseWithoutExt, ext, counter) ==
    Join(dir, baseWithoutExt \o <<".">> \o Dec(counter) \o ext)

RECURSIVE Probe(_, _, _, _, _)
Probe(f, dir, baseWithoutExt, ext, counter) ==
    LET newBase == baseWithoutExt \o <<".">> \o Dec(counter) \o ext
        newDest == Join(dir, newBase)
    IN IF StatNotExist(f, newDest) THEN newDest
       ELSE Probe(f, dir, baseWithoutExt, ext, counter + 1)

\* a variant of GetUniqueDestination that takes the first candidate without
\* probing it
GetUniqueDestinationOnce(f, dest) ==
    IF StatNotExist(f, dest) THEN [path |-> dest, returns |-> TRUE]
    ELSE IF Blocked(f, Key(Join(Dir(dest), <<"x">>))) THEN [path |-> <<>>, returns |-> FALSE]
    ELSE [path |-> Join(Dir(dest), TrimSuffix(Base(dest), Ext(Base(dest)))
                                    \o <<".", "1">> \o Ext(Base(dest))),
          returns |-> TRUE]

\* GetUniqueDestination: [path, returns]; the loop never ends when a
\* component of dest is a file, because no probe then answers "not found"
GetUniqueDestination(f, dest) ==
    IF StatNotExist(f, dest) THEN [path |-> dest, returns |-> TRUE]
    ELSE IF Blocked(f, Key(Join(Dir(dest), <<"x">>))) THEN [path |-> <<>>, returns |-> FALSE]
    ELSE LET base == Base(dest)
             ext == Ext(base)
         IN [path |-> Probe(f, Dir(dest), TrimSuffix(base, ext), ext, 1),
             returns |-> TRUE]

Lib(r, e) ==
    [fs |-> r.fs, err |-> IF r.ok THEN "nil" ELSE e, out |-> <<>>, temp |-> <<>>,
     defined |-> r.defined]

Hang(f) == [fs |-> f, err |-> "hang", out |-> <<>>, temp |-> <<>>, defined |-> FALSE]

\* a variant of CopyFileOrFolder that does not look for a trailing separator
CopyFileOrFolderNoSlash(f, src, dest, overwrite, fault) ==
    IF ~StatOk(f, src) THEN Ret(f, "ErrNotExist")
    ELSE LET into == IF StatIsDir(f, dest) THEN Join(dest, Base(src)) ELSE dest
             u == IF overwrite THEN [path |-> into, returns |-> TRUE]
                  ELSE GetUniqueDestination(f, into)
         IN IF ~u.returns THEN Hang(f)
            ELSE IF fault = "copy" THEN Ret(f, "io")
            ELSE LET c == Copy(f, Key(src), Key(u.path))
                 IN [Lib(c, "io") EXCEPT !.out = IF c.ok THEN u.path ELSE <<>>]

\* CopyFileOrFolder(src, dest, overwrite)
CopyFileOrFolder(f, src, dest, overwrite, fault) ==
    IF StatNotExist(f, src) THEN Ret(f, "ErrNotExist")
    ELSE IF ~StatOk(f, src) THEN Ret(f, "io")
    ELSE LET into == IF StatIsDir(f, dest) THEN Join(dest, Base(src))
                     ELSE IF HasSuffix(dest, <<Sep>>) THEN Join(dest, Base(src))
                     ELSE dest
             u == IF overwrite THEN [path |-> into, returns |-> TRUE]
                  ELSE GetUniqueDestination(f, into)
         IN IF ~u.returns THEN Hang(f)
            ELSE IF fault = "copy" THEN Ret(f, "io")
            ELSE LET c == Copy(f, Key(src), Key(u.path))
                 IN [Lib(c, "io") EXCEPT !.out = IF c.ok THEN u.path ELSE <<>>]

\* a variant of TarGz that puts the prefix into the file name as it is
TarGzRawPrefix(f, src, dest, prefix, overwrite, fault) ==
    LET m == MkdirAll(f, Key(Dir(dest)))
        target == Join(dest, prefix \o Base(src) \o tar)
        u == IF overwrite THEN [path |-> target, returns |-> TRUE]
             ELSE GetUniqueDestination(m.fs, target)
    IN IF ~m.ok THEN Ret(f, "io")
       ELSE IF ~u.returns THEN Hang(m.fs)
       ELSE IF fault = "copy" THEN Ret(m.fs, "io")
       ELSE [Lib(Archive(m.fs, Key(src), Key(u.path)), "io") EXCEPT !.out = u.path]

\* a variant of TarGz that never asks for a unique destination
TarGzIgnoreFlag(f, src, dest, prefix, overwrite, fault) ==
    LET encoded == CharEncode(prefix)
        m == MkdirAll(f, Key(Dir(dest)))
        target == Join(dest, encoded \o Base(src) \o tar)
    IN IF ~m.ok THEN Ret(f, "io")
       ELSE IF fault = "copy" THEN Ret(m.fs, "io")
       ELSE [Lib(Archive(m.fs, Key(src), Key(target)), "io") EXCEPT !.out = target]

\* a variant of TarGz that archives the directory holding src
TarGzOfParent(f, src, dest, prefix, overwrite, fault) ==
    LET encoded == CharEncode(prefix)
        m == MkdirAll(f, Key(Dir(dest)))
        target == Join(dest, encoded \o Base(src) \o tar)
        u == IF overwrite THEN [path |-> target, returns |-> TRUE]
             ELSE GetUniqueDestination(m.fs, target)
    IN IF ~m.ok THEN Ret(f, "io")
       ELSE IF ~u.returns THEN Hang(m.fs)
       ELSE IF fault = "copy" THEN Ret(m.fs, "io")
       ELSE [Lib(Archive(m.fs, Key(Dir(src)), Key(u.path)), "io") EXCEPT !.out = u.path]

\* TarGz(src, dest, prefix, overwrite)
TarGz(f, src, dest, prefix, overwrite, fault) ==
    LET encoded == CharEncode(prefix)
        m == MkdirAll(f, Key(Dir(dest)))
        target == Join(dest, encoded \o Base(src) \o tar)
        u == IF overwrite THEN [path |-> target, returns |-> TRUE]
             ELSE GetUniqueDestination(m.fs, target)
    IN IF ~m.ok THEN Ret(f, "io")
       ELSE IF ~u.returns THEN Hang(m.fs)
       ELSE IF fault = "copy" THEN Ret(m.fs, "io")
       ELSE [Lib(Archive(m.fs, Key(src), Key(u.path)), "io") EXCEPT !.out = u.path]

\* a variant of UnTarGzBody that does not ask whether the entry is a directory
UnTarGzBodyAnyEntry(f, src, dest, tempDir, fault) ==
    LET id == Base(dest)
        u == Unarchive(f, Key(src), tempDir)
        files == ReadDir(u.fs, tempDir)
        removed == IF StatOk(u.fs, dest) THEN RemoveAll(u.fs, Key(dest)) ELSE u.fs
    IN IF ~u.ok THEN Ret(u.fs, "io")
       ELSE IF Cardinality(files) # 1 THEN Ret(u.fs, "Err12")
       ELSE IF \E e \in files : e.name # id THEN Ret(u.fs, "Err13")
       ELSE IF StatNotExist(u.fs, src) THEN Ret(u.fs, "ErrNotExist")
       ELSE IF StatOk(u.fs, dest) /\ fault = "remove" THEN Ret(u.fs, "io")
       ELSE IF fault = "copy" THEN Ret(removed, "io")
       ELSE Lib(Copy(removed, Append(tempDir, id), Key(dest)), "io")

\* a variant of UnTarGzBody that copies over the destination without
\* removing it first
UnTarGzBodyKeepDest(f, src, dest, tempDir, fault) ==
    LET id == Base(dest)
        u == Unarchive(f, Key(src), tempDir)
        files == ReadDir(u.fs, tempDir)
    IN IF ~u.ok THEN Ret(u.fs, "io")
       ELSE IF Cardinality(files) # 1 \/ \E e \in files : ~e.isDir THEN Ret(u.fs, "Err12")
       ELSE IF \E e \in files : e.name # id THEN Ret(u.fs, "Err13")
       ELSE IF StatNotExist(u.fs, src) THEN Ret(u.fs, "ErrNotExist")
       ELSE IF fault = "copy" THEN Ret(u.fs, "io")
       ELSE Lib(Copy(u.fs, Append(tempDir, id), Key(dest)), "io")

\* UnTarGz from the extraction on, the temporary directory being there:
\* what runs before the deferred clean-up
UnTarGzBody(f, src, dest, tempDir, fault) ==
    LET id == Base(dest)
        u == Unarchive(f, Key(src), tempDir)
        files == ReadDir(u.fs, tempDir)
        removed == IF StatOk(u.fs, dest) THEN RemoveAll(u.fs, Key(dest)) ELSE u.fs
    IN IF ~u.ok THEN Ret(u.fs, "io")
       ELSE IF Cardinality(files) # 1 \/ \E e \in files : ~e.isDir THEN Ret(u.fs, "Err12")
       ELSE IF \E e \in files : e.name # id THEN Ret(u.fs, "Err13")
       ELSE IF StatNotExist(u.fs, src) THEN Ret(u.fs, "ErrNotExist")
       ELSE IF StatOk(u.fs, dest) /\ fault = "remove" THEN Ret(u.fs, "io")
       ELSE IF fault = "copy" THEN Ret(removed, "io")
       ELSE Lib(Copy(removed, Append(tempDir, id), Key(dest)), "io")

\* a variant of UnTarGz whose clean-up runs on the successful path only
UnTarGzCleanupOnSuccess(f, src, dest, fault) ==
    LET tempDir == Append(TempRoot, TempName)
        made == MkdirAll(f, tempDir)
        r == UnTarGzBody(made.fs, src, dest, tempDir, fault)
    IN IF fault = "tempdir" \/ ~made.ok \/ Exists(f, tempDir) THEN Ret(f, "io")
       ELSE [r EXCEPT !.fs = IF r.err = "nil" THEN RemoveAll(r.fs, tempDir) ELSE r.fs,
                      !.temp = tempDir]

\* UnTarGz(src, dest): afero.TempDir, then the body, then the deferred
\* fs.RemoveAll(tempDir)
UnTarGz(f, src, dest, fault) ==
    LET tempDir == Append(TempRoot, TempName)
        made == MkdirAll(f, tempDir)
        r == UnTarGzBody(made.fs, src, dest, tempDir, fault)
    IN IF fault = "tempdir" \/ ~made.ok \/ Exists(f, tempDir) THEN Ret(f, "io")
       ELSE [r EXCEPT !.fs = RemoveAll(r.fs, tempDir), !.temp = tempDir]

(***************************************************************************)
(* cmd/ptmv and cmd/ptcp: Run, after the command line has been parsed      *)
(* into the root, the two positional arguments and the flags               *)
(***************************************************************************)
\* the tar / CopyFileOrFolder branch that both commands end with
Transfer(f, src, dest, prefix, isTar, srcIsPairtree, overwrite, fault) ==
    IF isTar
    THEN IF srcIsPairtree THEN TarGz(f, src, dest, prefix, overwrite, fault)
         ELSE UnTarGz(f, src, dest, fault)
    ELSE CopyFileOrFolder(f, src, dest, overwrite, fault)

\* what a command returns: the result t of its last call and the statement
\* it returned from
Staged(t, where) ==
    [fs |-> t.fs, err |-> t.err, out |-> t.out, temp |-> t.temp,
     defined |-> t.defined, stage |-> where]

\* ptmv.Run after the transfer has returned t: the error check, then
\* os.RemoveAll(src)
MvFinish(t, src, fault) ==
    IF t.err # "nil" THEN Staged(t, "transfer")
    ELSE IF fault = "rmsrc" THEN Staged([t EXCEPT !.err = "io"], "rmsrc")
    ELSE Staged([t EXCEPT !.fs = RemoveAll(t.fs, Key(src))], "done")

\* a variant of MvTransfer that leaves the destination in place
MvTransferKeepDest(f, src, dest, prefix, isTar, srcIsPairtree, fault) ==
    IF fault = "rmdest" THEN Staged(Ret(f, "io"), "rmdest")
    ELSE MvFinish(Transfer(f, src, dest, prefix, isTar, srcIsPairtree, TRUE, fault),
                  src, fault)

\* ptmv.Run from os.RemoveAll(dest) on
MvTransfer(f, src, dest, prefix, isTar, srcIsPairtree, fault) ==
    IF fault = "rmdest" THEN Staged(Ret(f, "io"), "rmdest")
    ELSE MvFinish(Transfer(RemoveAll(f, Key(dest)), src, dest, prefix, isTar,
                           srcIsPairtree, TRUE, fault),
                  src, fault)

\* a variant of Resolve that takes a destination without the prefix for a
\* path outside the pairtree
ResolveAnyDest(f, ptRoot, src, dest, subpath) ==
    LET ver == CheckPTVer(f, ptRoot)
        gp == GetPrefix(f, ptRoot)
        prefix == IF gp.prefix = <<>> THEN PtPrefix ELSE gp.prefix
        fail(e, g) == [fs |-> g, err |-> e, src |-> src, dest |-> dest,
                       prefix |-> prefix, srcIsPairtree |-> FALSE]
    IN IF ver # "nil" THEN fail(ver, f)
       ELSE IF gp.err # "nil" THEN fail(gp.err, f)
       ELSE IF HasPrefix(src, prefix)
       THEN LET pp == CreatePP(src, ptRoot, prefix)
            IN IF pp.err # "nil" THEN fail(pp.err, f)
               ELSE [fs |-> f, err |-> "nil", src |-> Join(pp.path, subpath),
                     dest |-> dest, prefix |-> prefix, srcIsPairtree |-> TRUE]
       ELSE IF HasPrefix(dest, prefix)
       THEN LET pp == CreatePP(dest, ptRoot, prefix)
                cd == CreateDirNotExist(f, pp.path)
            IN IF pp.err # "nil" THEN fail(pp.err, f)
               ELSE IF cd.err # "nil" THEN fail(cd.err, cd.fs)
               ELSE [fs |-> cd.fs, err |-> "nil", src |-> src,
                     dest |-> Join(pp.path, subpath), prefix |-> prefix,
                     srcIsPairtree |-> FALSE]
       ELSE [fs |-> f, err |-> "nil", src |-> src, dest |-> dest, prefix |-> prefix,
             srcIsPairtree |-> FALSE]

\* the resolution of src and dest that both commands share: which side is
\* in the pairtree, and its pairpath.  [fs, err, src, dest, prefix, srcIsPairtree]
Resolve(f, ptRoot, src, dest, subpath) ==
    LET ver == CheckPTVer(f, ptRoot)
        gp == GetPrefix(f, ptRoot)
        prefix == IF gp.prefix = <<>> THEN PtPrefix ELSE gp.prefix
        fail(e, g) == [fs |-> g, err |-> e, src |-> src, dest |-> dest,
                       prefix |-> prefix, srcIsPairtree |-> FALSE]
    IN IF ver # "nil" THEN fail(ver, f)
       ELSE IF gp.err # "nil" THEN fail(gp.err, f)
       ELSE IF HasPrefix(src, prefix)
       THEN LET pp == CreatePP(src, ptRoot, prefix)
            IN IF pp.err # "nil" THEN fail(pp.err, f)
               ELSE [fs |-> f, err |-> "nil", src |-> Join(pp.path, subpath),
                     dest |-> dest, prefix |-> prefix, srcIsPairtree |-> TRUE]
       ELSE IF HasPrefix(dest, prefix)
       THEN LET pp == CreatePP(dest, ptRoot, prefix)
                cd == CreateDirNotExist(f, pp.path)
            IN IF pp.err # "nil" THEN fail(pp.err, f)
               ELSE IF cd.err # "nil" THEN fail(cd.err, cd.fs)
               ELSE [fs |-> cd.fs, err |-> "nil", src |-> src,
                     dest |-> Join(pp.path, subpath), prefix |-> prefix,
                     srcIsPairtree |-> FALSE]
       ELSE fail("Err10", f)

\* what a command returns, with the paths r it resolved
Resolved(t, r) ==
    [fs |-> t.fs, err |-> t.err, out |-> t.out, temp |-> t.temp,
     defined |-> t.defined, stage |-> t.stage, src |-> r.src, dest |-> r.dest,
     fromPt |-> r.srcIsPairtree]

\* ptmv.Run once src and dest are resolved to r
MvResolved(r, isTar, fault) ==
    IF r.err # "nil" THEN Resolved(Staged(Ret(r.fs, r.err), "resolve"), r)
    ELSE Resolved(MvTransfer(r.fs, r.src, r.dest, r.prefix, isTar, r.srcIsPairtree,
                             fault), r)

\* ptmv.Run: [fs, err, out, temp, defined, stage, src, dest, fromPt]; src and
\* dest are the resolved paths, fromPt tells that src was the pairtree side
MvRun(f, ptRoot, src, dest, isTar, fault) ==
    MvResolved(Resolve(f, ptRoot, src, dest, <<>>), isTar, fault)

\* ptcp.Run after the transfer has returned t
CpFinish(t) == Staged(t, IF t.err = "nil" THEN "done" ELSE "transfer")

\* ptcp.Run once src and dest are resolved to r
CpResolved(r, isTar, overwrite, fault) ==
    IF r.err # "nil" THEN Resolved(Staged(Ret(r.fs, r.err), "resolve"), r)
    ELSE Resolved(CpFinish(Transfer(r.fs, r.src, r.dest, r.prefix, isTar,
                                    r.srcIsPairtree, overwrite, fault)), r)

\* a variant of CpRun that looks at -a and -n once src and dest are resolved
CpRunLateArgs(f, ptRoot, src, dest, isTar, overwrite, subpath, fault) ==
    LET r == Resolve(f, ptRoot, src, dest, subpath)
    IN IF r.err = "nil" /\ isTar /\ subpath # <<>>
       THEN Resolved(Staged(Ret(r.fs, "Err11"), "args"), r)
       ELSE CpResolved(r, isTar, overwrite, fault)

\* ptcp.Run: [fs, err, out, temp, defined, stage, src, dest, fromPt]
CpRun(f, ptRoot, src, dest, isTar, overwrite, subpath, fault) ==
    IF isTar /\ subpath # <<>>
    THEN Resolved(Staged(Ret(f, "Err11"), "args"),
                  [src |-> src, dest |-> dest, srcIsPairtree |-> FALSE])
    ELSE CpResolved(Resolve(f, ptRoot, src, dest, subpath), isTar, overwrite, fault)

(***************************************************************************)
(* State                                                                   *)
(*   fs        the filesystem                                              *)
(*   last      the last call: its name, arguments and result, and the      *)
(*             filesystem it started from                                  *)
(*   exported  the last archive TarGz wrote: where, and from which tree    *)
(*   history   the successful calls of CopyFileOrFolder and TarGz so far:  *)
(*             what each was asked, the path it wrote and what it wrote    *)
(*   pkg       the package-level variables of ptrm that a Run may leave    *)
(*             set: subpath                                                *)
(*   steps     the number of calls made so far                             *)
(***************************************************************************)
ArkPrefix == <<"a", "r", "k", ":", "/">>

Idle ==
    [op |-> "none", a |-> <<>>, b |-> <<>>, c |-> <<>>, tar |-> FALSE,
     overwrite |-> FALSE, fault |-> "none", err |-> "nil", out |-> <<>>,
     pre |-> <<>>, temp |-> <<>>, rsrc |-> <<>>, rdest |-> <<>>, stage |-> "none",
     fromPt |-> FALSE, root |-> <<>>, map |-> <<>>, flags |-> {}, tree |-> <<>>,
     args |-> <<>>, copy |-> "none"]

NoPkg == [subpath |-> <<>>]

NoExport == [path |-> <<>>, base |-> <<>>, node |-> DirNode, tree |-> <<>>]

(***************************************************************************)
(* The filesystems a behaviour starts from: a pairtree at /pt (prefix      *)
(* ark:/, or no prefix file) holding object ab, a second pairtree at /q    *)
(* holding another object ab, a directory /o outside of them, archives in  *)
(* /in, and the system's temporary directory /tmp.                         *)
(***************************************************************************)
AB == <<"a", "b">>
CD == <<"c", "d">>
PtRoot == <<Sep, "p", "t">>
QRoot == <<Sep, "q">>
OutDir == <<Sep, "o">>
InDir == <<Sep, "i", "n">>

\* /pt/pairtree_root/ab/ab, /pt/pairtree_root/cd/cd and /q/pairtree_root/ab/ab
ObjAB == PtRoot \o <<Sep>> \o rootDir \o <<Sep>> \o AB \o <<Sep>> \o AB
ObjCD == PtRoot \o <<Sep>> \o rootDir \o <<Sep>> \o CD \o <<Sep>> \o CD
ObjQ == QRoot \o <<Sep>> \o rootDir \o <<Sep>> \o AB \o <<Sep>> \o AB

\* the directories on the way to a path, and the path itself, as directories
DirsTo(path) == [k \in Prefixes(Key(path)) |-> DirNode]

FileAt(path, data) == [k \in {Key(path)} |-> FileNode(data)]

ArchiveAt(path, entries) == [k \in {Key(path)} |-> TgzNode(entries)]

\* archive contents: one folder ab holding file k; the same without an
\* entry for the folder itself; a folder of another name; two folders; a
\* single file named ab
GoodEntries == {[p |-> <<AB>>, n |-> DirNode], [p |-> <<AB, <<"k">>>>, n |-> FileNode(<<"9">>)]}
BareEntries == {[p |-> <<AB, <<"k">>>>, n |-> FileNode(<<"9">>)]}
OtherEntries == {[p |-> <<CD>>, n |-> DirNode], [p |-> <<CD, <<"k">>>>, n |-> FileNode(<<"9">>)]}
TwoEntries == GoodEntries \cup {[p |-> <<CD>>, n |-> DirNode]}
FlatEntries == {[p |-> <<AB>>, n |-> FileNode(<<"9">>)]}

GoodTgz == InDir \o <<Sep, "a", "r", "k", "+", "=">> \o AB \o tar
BareTgz == InDir \o <<Sep, "b">> \o tar
OtherTgz == InDir \o <<Sep, "c">> \o tar
TwoTgz == InDir \o <<Sep, "t">> \o tar
FlatTgz == InDir \o <<Sep, "f">> \o tar
EmptyTgz == InDir \o <<Sep, "e">> \o tar
JunkTgz == InDir \o <<Sep, "j">> \o tar
InsideTgz == ObjAB \o <<Sep, "i">> \o tar

Archives ==
    ArchiveAt(GoodTgz, GoodEntries) @@ ArchiveAt(BareTgz, BareEntries)
    @@ ArchiveAt(OtherTgz, OtherEntries) @@ ArchiveAt(TwoTgz, TwoEntries)
    @@ ArchiveAt(FlatTgz, FlatEntries) @@ ArchiveAt(EmptyTgz, {})
    @@ FileAt(JunkTgz, <<"j">>) @@ ArchiveAt(InsideTgz, GoodEntries)

BaseFS ==
    FileAt(Join(PtRoot, verDir), <<"v">>) @@ FileAt(Join(QRoot, verDir), <<"v">>)
    @@ FileAt(ObjAB \o <<Sep, "f">>, <<"1">>)
    @@ FileAt(ObjAB \o <<Sep, "d", Sep, "g">>, <<"2">>)
    @@ FileAt(ObjQ \o <<Sep, "z">>, <<"3">>)
    @@ FileAt(OutDir \o <<Sep, "f">>, <<"4">>)
    @@ Archives
    @@ DirsTo(ObjAB \o <<Sep, "d">>) @@ DirsTo(ObjQ) @@ DirsTo(OutDir) @@ DirsTo(InDir)
    @@ DirsTo(<<Sep, "tmp">>)

\* with the prefix file of /pt holding ark:/, or without one (prefix pt://)
InitFS == {BaseFS, FileAt(Join(PtRoot, prefixDir), ArkPrefix) @@ BaseFS}

\* every entry's parent is a directory
WellFormed(f) == \A k \in DOMAIN f : k # <<>> /\ IsDir(f, Parent(k))

(***************************************************************************)
(* Calls of the codec                                                      *)
(***************************************************************************)
EncAlphabet == {"/", "=", ":", "+", "^", "3", "d"}

EncInputs == StringsUpTo(EncAlphabet, MaxEncLen)

IdAlphabet == {"3", "4", ":", " "}

IdRemainders == StringsUpTo(IdAlphabet, MaxIdLen)

CodecPrefixes == {<<>>, ArkPrefix, PtPrefix}

CodecRoots == {<<>>, <<" ">>, <<"r">>, <<Sep, "r", Sep>>}

\* The codec's functions are pure: each behaviour applies one of them once.
EncodeCharCall ==
    /\ steps = 0
    /\ steps' = 1
    /\ \E id \in EncInputs :
          last' = [Idle EXCEPT !.op = "EncodeChar", !.a = id, !.out = EncodeChar(id)]
    /\ UNCHANGED <<fs, exported, history, pkg>>

CreatePPCall ==
    /\ steps = 0
    /\ steps' = 1
    /\ \E prefix \in CodecPrefixes, ptRoot \in CodecRoots, rest \in IdRemainders :
          \E id \in {prefix \o rest, rest} :
             LET r == CreatePP(id, ptRoot, prefix)
             IN last' = [Idle EXCEPT !.op = "CreatePP", !.a = id, !.b = ptRoot,
                                     !.c = prefix, !.err = r.err, !.out = r.path]
    /\ UNCHANGED <<fs, exported, history, pkg>>

InitCodec == fs = <<>> /\ last = Idle /\ exported = NoExport /\ history = <<>> /\ pkg = NoPkg /\ steps = 0

NextCodec == EncodeCharCall \/ CreatePPCall

SpecCodec == InitCodec /\ [][NextCodec]_vars

(***************************************************************************)
(* Calls of the archive engine                                             *)
(***************************************************************************)
NewDir == <<Sep, "n">>

InitArchives ==
    {GoodTgz, BareTgz, OtherTgz, TwoTgz, FlatTgz, EmptyTgz, JunkTgz, InsideTgz}

\* the system calls that may fail in a call of UnTarGz on src
UnTarFaults(src) ==
    IF src = GoodTgz THEN {"none", "tempdir", "remove", "copy"} ELSE {"none"}

TarGzCall ==
    /\ steps < MaxCalls
    /\ exported = NoExport
    /\ steps' = steps + 1
    /\ \E src \in {ObjAB, ObjCD}, dest \in {OutDir, NewDir},
          prefix \in {<<>>, ArkPrefix}, overwrite \in BOOLEAN :
          LET r == TarGz(fs, src, dest, prefix, overwrite, "none")
          IN /\ r.defined
             /\ fs' = r.fs
             /\ last' = [Idle EXCEPT !.op = "TarGz", !.a = src, !.b = dest, !.c = prefix,
                                     !.overwrite = overwrite, !.err = r.err,
                                     !.out = r.out, !.pre = fs]
             /\ exported' = IF r.err = "nil"
                            THEN [path |-> r.out, base |-> Base(src),
                                  node |-> r.fs[Key(r.out)], tree |-> Subtree(fs, Key(src))]
                            ELSE exported
    /\ UNCHANGED <<history, pkg>>

UnTarGzCall ==
    /\ steps < MaxCalls
    /\ steps' = steps + 1
    /\ \E src \in InitArchives \cup ({exported.path} \ {<<>>}),
          dest \in {ObjAB, ObjQ, ObjCD} :
          \E fault \in UnTarFaults(src) :
             LET r == UnTarGz(fs, src, dest, fault)
             IN /\ r.defined
                /\ fs' = r.fs
                /\ last' = [Idle EXCEPT !.op = "UnTarGz", !.a = src, !.b = dest,
                                        !.fault = fault, !.err = r.err, !.pre = fs,
                                        !.temp = r.temp]
    /\ UNCHANGED <<exported, history, pkg>>

InitArchive == fs = BaseFS /\ last = Idle /\ exported = NoExport /\ history = <<>> /\ pkg = NoPkg /\ steps = 0

NextArchive == TarGzCall \/ UnTarGzCall

SpecArchive == InitArchive /\ [][NextArchive]_vars

(***************************************************************************)
(* Runs of mv and cp: one command, on one of the initial filesystems       *)
(***************************************************************************)
ArkAB == ArkPrefix \o AB
ArkCD == ArkPrefix \o CD
PtAB == PtPrefix \o AB

CmdArgs ==
    {ArkAB, ArkCD, ArkPrefix, PtAB, OutDir, OutDir \o <<Sep>>, NewDir,
     OutDir \o <<Sep, "f">>, GoodTgz, OtherTgz, InsideTgz, ObjAB \o <<Sep, "f">>, PtRoot}

CmdFaults == {"none", "rmdest", "rmsrc", "tempdir", "remove", "copy"}

\* the --pairtree option: a pairtree root, or a directory that is none
CmdRoots == {PtRoot, InDir}

\* the command op has run from f on arguments a and b (and c) and returned r
Ran(op, ptRoot, a, b, c, isTar, overwrite, fault, f, r) ==
    /\ r.defined
    /\ fs' = r.fs
    /\ last' = [Idle EXCEPT !.op = op, !.a = a, !.b = b, !.c = c, !.tar = isTar,
                            !.overwrite = overwrite, !.fault = fault, !.err = r.err,
                            !.out = r.out, !.pre = f, !.temp = r.temp,
                            !.rsrc = r.src, !.rdest = r.dest, !.stage = r.stage,
                            !.fromPt = r.fromPt, !.root = ptRoot]

MvCall ==
    /\ steps = 0
    /\ steps' = 1
    /\ \E ptRoot \in CmdRoots, src \in CmdArgs, dest \in CmdArgs, isTar \in BOOLEAN,
          fault \in CmdFaults :
          Ran("mv", ptRoot, src, dest, <<>>, isTar, TRUE, fault, fs,
              MvRun(fs, ptRoot, src, dest, isTar, fault))
    /\ UNCHANGED <<exported, history, pkg>>

CpCall ==
    /\ steps = 0
    /\ steps' = 1
    /\ \E ptRoot \in CmdRoots, src \in CmdArgs, dest \in CmdArgs, isTar \in BOOLEAN,
          overwrite \in BOOLEAN, subpath \in {<<>>, <<"s">>},
          fault \in CmdFaults \ {"rmdest", "rmsrc"} :
          Ran("cp", ptRoot, src, dest, subpath, isTar, overwrite, fault, fs,
              CpRun(fs, ptRoot, src, dest, isTar, overwrite, subpath, fault))
    /\ UNCHANGED <<exported, history, pkg>>

InitMove == fs \in InitFS /\ last = Idle /\ exported = NoExport /\ history = <<>> /\ pkg = NoPkg /\ steps = 0

NextMove == MvCall \/ CpCall

SpecMove == InitMove /\ [][NextMove]_vars

\* every filesystem reached is a tree
FsWellFormed == WellFormed(fs)

(***************************************************************************)
(* Calls of CopyFileOrFolder and GetUniqueDestination                      *)
(***************************************************************************)
\* /o/f.1, /o/f/x (below a file), and absent /n/f
OutF == OutDir \o <<Sep, "f">>
OutF1 == OutDir \o <<Sep, "f", ".", "1">>
BelowF == OutDir \o <<Sep, "f", Sep, "x">>

\* with and without a file /o/f.1 next to /o/f
CopyFS == {BaseFS, FileAt(OutF1, <<"5">>) @@ BaseFS}

\* a file, a directory, and a path that does not exist
CopySrcs == {ObjAB \o <<Sep, "f">>, ObjAB \o <<Sep, "d">>, NewDir}

\* an existing directory, the same with a trailing separator, an existing
\* file, a path below a file, an absent path with and without a trailing
\* separator
CopyDests == {OutDir, OutDir \o <<Sep>>, OutF, BelowF, NewDir, NewDir \o <<Sep>>}

UniqueArgs == {OutF, OutF1, BelowF, OutDir, OutDir \o <<Sep>>, NewDir, InsideTgz, <<>>}

\* CopyFileOrFolder has run from f and returned r
Copied(src, dest, overwrite, fault, f, r) ==
    /\ r.defined
    /\ fs' = r.fs
    /\ last' = [Idle EXCEPT !.op = "copy", !.a = src, !.b = dest,
                            !.overwrite = overwrite, !.fault = fault, !.err = r.err,
                            !.out = r.out, !.pre = f]
    /\ history' = IF r.err = "nil"
                  THEN Append(history, [op |-> "copy", dest |-> dest,
                                        overwrite |-> overwrite, out |-> r.out,
                                        tree |-> Subtree(r.fs, Key(r.out))])
                  ELSE history

CopyCall ==
    /\ steps < MaxCopies
    /\ last.op \in {"none", "copy", "unique"}
    /\ steps' = steps + 1
    /\ \E src \in CopySrcs, dest \in CopyDests, overwrite \in BOOLEAN,
          fault \in {"none", "copy"} :
          Copied(src, dest, overwrite, fault, fs,
                 CopyFileOrFolder(fs, src, dest, overwrite, fault))
    /\ UNCHANGED <<exported, pkg>>

\* GetUniqueDestination has run on f and answered g, or is still looping
Probed(dest, f, g) ==
    last' = [Idle EXCEPT !.op = "unique", !.a = dest, !.out = g.path,
                         !.err = IF g.returns THEN "nil" ELSE "hang", !.pre = f]

UniqueCall ==
    /\ steps < MaxCopies
    /\ steps' = steps + 1
    /\ \E dest \in UniqueArgs : Probed(dest, fs, GetUniqueDestination(fs, dest))
    /\ UNCHANGED <<fs, exported, history, pkg>>

InitCopy ==
    fs \in CopyFS /\ last = Idle /\ exported = NoExport /\ history = <<>> /\ pkg = NoPkg /\ steps = 0

NextCopy == CopyCall \/ UniqueCall

SpecCopy == InitCopy /\ [][NextCopy]_vars

(***************************************************************************)
(* Successive exports with TarGz                                           *)
(***************************************************************************)
Deep == NewDir \o <<Sep, "m">>

ExportSrcs == {ObjAB, ObjQ}

ExportDests == {OutDir, Deep}

Exported(src, dest, prefix, overwrite, f, r) ==
    /\ r.defined
    /\ fs' = r.fs
    /\ last' = [Idle EXCEPT !.op = "TarGz", !.a = src, !.b = dest, !.c = prefix,
                            !.overwrite = overwrite, !.err = r.err, !.out = r.out,
                            !.pre = f]
    /\ history' = IF r.err = "nil"
                  THEN Append(history, [op |-> "TarGz", src |-> src, dest |-> dest,
                                        prefix |-> prefix, overwrite |-> overwrite,
                                        out |-> r.out, node |-> r.fs[Key(r.out)]])
                  ELSE history

ExportCall ==
    /\ steps < MaxExports
    /\ steps' = steps + 1
    /\ \E src \in ExportSrcs, dest \in ExportDests, prefix \in {<<>>, ArkPrefix},
          overwrite \in BOOLEAN :
          Exported(src, dest, prefix, overwrite, fs,
                   TarGz(fs, src, dest, prefix, overwrite, "none"))
    /\ UNCHANGED <<exported, pkg>>

InitExport == fs = BaseFS /\ last = Idle /\ exported = NoExport /\ history = <<>> /\ pkg = NoPkg /\ steps = 0

NextExport == ExportCall

SpecExport == InitExport /\ [][NextExport]_vars

(***************************************************************************)
(* Listings: RecursiveFiles and NonRecursiveFiles                          *)
(*                                                                         *)
(* A map of the program is a function from path strings to sequences of    *)
(* directory entries [name, isDir]; a key that is missing reads as the     *)
(* empty sequence, as in Go.                                               *)
(***************************************************************************)
\* the characters of the names listed, in byte order
ByteOrder ==
    <<".", "0", "1", "2", "3", "4", "5", "6", "7", "8", "9", "a", "b", "c", "d", "e",
      "f", "g", "h", "i", "j", "k", "l", "m", "n", "o", "p", "q", "r", "s", "t", "u",
      "v", "w", "x", "y", "z">>

ByteRank(c) == CHOOSE i \in DOMAIN ByteOrder : ByteOrder[i] = c

\* a < b for file names, as strings are compared
RECURSIVE NameLess(_, _)
NameLess(a, b) ==
    IF b = <<>> THEN FALSE
    ELSE IF a = <<>> THEN TRUE
    ELSE IF a[1] = b[1] THEN NameLess(Tail(a), Tail(b))
    ELSE ByteRank(a[1]) < ByteRank(b[1])

\* directory entries sorted by file name, as os.ReadDir returns them
RECURSIVE SortedEntries(_)
SortedEntries(S) ==
    IF S = {} THEN <<>>
    ELSE LET m == CHOOSE x \in S : \A y \in S \ {x} : NameLess(x.name, y.name)
         IN <<m>> \o SortedEntries(S \ {m})

\* filepath.WalkDir: the calls of the function, as [path, d], in order
RECURSIVE WalkDir(_, _, _)
RECURSIVE WalkEach(_, _, _)
WalkDir(f, path, d) ==
    <<[path |-> path, d |-> d]>>
    \o (IF d.isDir THEN WalkEach(f, path, SortedEntries(ReadDir(f, Key(path)))) ELSE <<>>)

WalkEach(f, path, entries) ==
    IF entries = <<>> THEN <<>>
    ELSE WalkDir(f, Join(path, Head(entries).name), Head(entries))
         \o WalkEach(f, path, Tail(entries))

\* reading a map at a key
Lookup(result, key) == IF key \in DOMAIN result THEN result[key] ELSE <<>>

\* a variant of the function RecursiveFiles gives to WalkDir that does not
\* skip the root
WalkFnKeepRoot(result, pairPath, v) ==
    LET parentDir == Dir(v.path)
        added == (parentDir :> Append(Lookup(result, parentDir), v.d)) @@ result
    IN IF v.d.isDir THEN (v.path :> <<>>) @@ added ELSE added

\* the function RecursiveFiles gives to WalkDir, applied to one call v
WalkFn(result, pairPath, v) ==
    IF v.path = pairPath THEN result
    ELSE LET parentDir == Dir(v.path)
             added == (parentDir :> Append(Lookup(result, parentDir), v.d)) @@ result
         IN IF v.d.isDir THEN (v.path :> <<>>) @@ added ELSE added

RECURSIVE WalkAll(_, _, _)
WalkAll(result, pairPath, visits) ==
    IF visits = <<>> THEN result
    ELSE WalkAll(WalkFn(result, pairPath, Head(visits)), pairPath, Tail(visits))

\* RecursiveFiles(pairPath, id): [map, err]
RecursiveFiles(f, pairPath) ==
    IF StatNotExist(f, pairPath) THEN [map |-> <<>>, err |-> "ErrNotExist"]
    ELSE IF ~StatOk(f, pairPath) THEN [map |-> <<>>, err |-> "io"]
    ELSE [map |-> WalkAll(<<>>, pairPath,
                          WalkDir(f, pairPath, [name |-> Base(pairPath),
                                                isDir |-> StatIsDir(f, pairPath)])),
          err |-> "nil"]

\* NonRecursiveFiles(pairPath): [map, err]
NonRecursiveFiles(f, pairPath) ==
    IF StatNotExist(f, pairPath) THEN [map |-> <<>>, err |-> "ErrNotExist"]
    ELSE IF ~StatIsDir(f, pairPath) THEN [map |-> <<>>, err |-> "io"]
    ELSE [map |-> (pairPath :> SortedEntries(ReadDir(f, Key(pairPath)))), err |-> "nil"]

\* what an object directory may hold: files f and .x, a directory d with a
\* file g and a directory e with a file k, a hidden directory .h with a file
\* and with a directory e that holds a file
Pieces ==
    {FileAt(ObjAB \o <<Sep, "f">>, <<"1">>),
     FileAt(ObjAB \o <<Sep, ".", "x">>, <<"2">>),
     DirsTo(ObjAB \o <<Sep, "d">>),
     FileAt(ObjAB \o <<Sep, "d", Sep, "g">>, <<"3">>) @@ DirsTo(ObjAB \o <<Sep, "d">>),
     DirsTo(ObjAB \o <<Sep, "d", Sep, "e">>),
     FileAt(ObjAB \o <<Sep, "d", Sep, "e", Sep, "k">>, <<"4">>)
        @@ DirsTo(ObjAB \o <<Sep, "d", Sep, "e">>),
     DirsTo(ObjAB \o <<Sep, ".", "h">>),
     FileAt(ObjAB \o <<Sep, ".", "h", Sep, "k">>, <<"5">>) @@ DirsTo(ObjAB \o <<Sep, ".", "h">>),
     FileAt(ObjAB \o <<Sep, ".", "h", Sep, "e", Sep, "k">>, <<"6">>)
        @@ DirsTo(ObjAB \o <<Sep, ".", "h", Sep, "e">>)}

RECURSIVE Merged(_)
Merged(S) ==
    IF S = {} THEN DirsTo(ObjAB)
    ELSE LET g == CHOOSE x \in S : TRUE IN g @@ Merged(S \ {g})

ListFS == {Merged(S) : S \in SUBSET Pieces}

ListArgs == {ObjAB, ObjAB \o <<Sep, "d">>, ObjAB \o <<Sep, "f">>, ObjCD}

Listed(op, pairPath, f, r) ==
    last' = [Idle EXCEPT !.op = op, !.a = pairPath, !.err = r.err, !.map = r.map, !.pre = f]

RecursiveFilesCall ==
    /\ steps = 0
    /\ steps' = 1
    /\ \E pairPath \in ListArgs :
          Listed("RecursiveFiles", pairPath, fs, RecursiveFiles(fs, pairPath))
    /\ UNCHANGED <<fs, exported, history, pkg>>

NonRecursiveFilesCall ==
    /\ steps = 0
    /\ steps' = 1
    /\ \E pairPath \in ListArgs :
          Listed("NonRecursiveFiles", pairPath, fs, NonRecursiveFiles(fs, pairPath))
    /\ UNCHANGED <<fs, exported, history, pkg>>

InitList == fs \in ListFS /\ last = Idle /\ exported = NoExport /\ history = <<>> /\ pkg = NoPkg /\ steps = 0

NextList == RecursiveFilesCall \/ NonRecursiveFilesCall

SpecList == InitList /\ [][NextList]_vars

(***************************************************************************)
(* Runs of ls                                                              *)
(***************************************************************************)
\* IsHidden(name)
IsHidden(name) == HasPrefix(name, <<".">>)

\* IsDirectory(obj)
IsDirectory(obj) == obj.isDir

ShownEntry(entry) == ~IsHidden(entry.name)

\* the loop of ls for -d: every value keeps its directories, a key whose
\* value is left empty is deleted
DirsOnly(ptMap) ==
    [key \in {k \in DOMAIN ptMap : SelectSeq(ptMap[k], IsDirectory) # <<>>} |->
        SelectSeq(ptMap[key], IsDirectory)]

\* the loop of ls without -a: a key whose base name is hidden is deleted,
\* every other value loses its hidden entries, a key whose value is left
\* empty is deleted
HideHidden(ptMap) ==
    [key \in {k \in DOMAIN ptMap :
                 ~IsHidden(Base(k)) /\ SelectSeq(ptMap[k], ShownEntry) # <<>>} |->
        SelectSeq(ptMap[key], ShownEntry)]

IsFileEntry(entry) == ~entry.isDir

\* a variant of BuildDirectoryTree that names every node by its base name
RECURSIVE BuildDirectoryTreeBaseNames(_, _, _)
BuildDirectoryTreeBaseNames(path, entriesMap, isFirstIteration) ==
    LET dirs == SelectSeq(Lookup(entriesMap, path), IsDirectory)
        files == SelectSeq(Lookup(entriesMap, path), IsFileEntry)
    IN [name |-> Base(path),
        directories |-> [i \in 1 .. Len(dirs) |->
                           BuildDirectoryTreeBaseNames(Join(path, dirs[i].name), entriesMap, FALSE)],
        files |-> [i \in 1 .. Len(files) |-> [name |-> files[i].name]]]

\* BuildDirectoryTree(path, entriesMap, isFirstIteration): [name,
\* directories, files]; filepath.FromSlash leaves a path with this separator
\* as it is
RECURSIVE BuildDirectoryTree(_, _, _)
BuildDirectoryTree(path, entriesMap, isFirstIteration) ==
    LET dirs == SelectSeq(Lookup(entriesMap, path), IsDirectory)
        files == SelectSeq(Lookup(entriesMap, path), IsFileEntry)
    IN [name |-> IF isFirstIteration THEN path ELSE Base(path),
        directories |-> [i \in 1 .. Len(dirs) |->
                           BuildDirectoryTree(Join(path, dirs[i].name), entriesMap, FALSE)],
        files |-> [i \in 1 .. Len(files) |-> [name |-> files[i].name]]]

LsFail(e) == [err |-> e, map |-> <<>>, tree |-> <<>>, pairPath |-> <<>>]

\* a variant of LsShow that never removes hidden entries
LsShowEverything(m, pairPath, flags) ==
    LET only == IF "d" \in flags THEN DirsOnly(m.map) ELSE m.map
    IN IF m.err # "nil" THEN LsFail(m.err)
       ELSE [err |-> "nil", map |-> only, tree |-> <<>>, pairPath |-> pairPath]

\* ptls.Run once the map m of the object at pairPath is listed: the filters
\* and the output
LsShow(m, pairPath, flags) ==
    LET only == IF "d" \in flags THEN DirsOnly(m.map) ELSE m.map
    IN IF m.err # "nil" THEN LsFail(m.err)
       ELSE [err |-> "nil",
             map |-> IF "a" \in flags THEN only ELSE HideHidden(only),
             tree |-> <<>>,
             pairPath |-> pairPath]

\* with -j the output is the tree built from the map
LsOutput(r, flags) ==
    IF r.err = "nil" /\ "j" \in flags
    THEN [r EXCEPT !.tree = BuildDirectoryTree(r.pairPath, r.map, TRUE)]
    ELSE r

\* ptls.Run once the pairpath pp of the id is made
LsListed(f, pp, flags) ==
    IF pp.err # "nil" THEN LsFail(pp.err)
    ELSE LsOutput(LsShow(IF "r" \in flags THEN RecursiveFiles(f, pp.path)
                         ELSE NonRecursiveFiles(f, pp.path),
                         pp.path, flags),
                  flags)

\* the prefix a command gives to CreatePP: pt:// when GetPrefix gives none
PrefixOrDefault(gp) == IF gp.prefix = <<>> THEN PtPrefix ELSE gp.prefix

\* The source holds two copies of ptls.Run that differ in the prefix they
\* give to CreatePP: the one of cmd/ptls/ptls.go gives what GetPrefix
\* returned, the other puts pt:// in the place of an empty prefix first.
LsCopies == {"ptls.go", "part_001"}

LsPrefix(gp, copy) == IF copy = "ptls.go" THEN gp.prefix ELSE PrefixOrDefault(gp)

\* ptls.Run: [err, map, tree, pairPath]; flags is the set of the flags
\* given, out of a, d, j and r; copy tells which copy of Run is built
LsRun(f, ptRoot, id, flags, copy) ==
    IF CheckPTVer(f, ptRoot) # "nil" THEN LsFail(CheckPTVer(f, ptRoot))
    ELSE IF GetPrefix(f, ptRoot).err # "nil" THEN LsFail(GetPrefix(f, ptRoot).err)
    ELSE LsListed(f, CreatePP(id, ptRoot, LsPrefix(GetPrefix(f, ptRoot), copy)), flags)

\* a pairtree at /pt with the prefix file holding ark:/, or without one,
\* around each of the object directories
LsFS ==
    {FileAt(Join(PtRoot, verDir), <<"v">>) @@ g : g \in ListFS}
    \cup {FileAt(Join(PtRoot, verDir), <<"v">>) @@ FileAt(Join(PtRoot, prefixDir), ArkPrefix) @@ g :
             g \in ListFS}

LsIds == {ArkPrefix \o AB, PtPrefix \o AB, AB, ArkPrefix \o CD}

LsDone(id, flags, copy, f, r) ==
    last' = [Idle EXCEPT !.op = "ls", !.a = id, !.root = PtRoot, !.flags = flags,
                         !.copy = copy,
                         !.err = r.err, !.map = r.map, !.tree = r.tree, !.out = r.pairPath,
                         !.pre = f]

LsCall ==
    /\ steps = 0
    /\ steps' = 1
    /\ \E id \in LsIds, flags \in SUBSET {"a", "d", "j", "r"}, copy \in LsCopies :
          LsDone(id, flags, copy, fs, LsRun(fs, PtRoot, id, flags, copy))
    /\ UNCHANGED <<fs, exported, history, pkg>>

InitLs ==
    fs \in LsFS /\ last = Idle /\ exported = NoExport /\ history = <<>> /\ pkg = NoPkg /\ steps = 0

NextLs == LsCall

SpecLs == InitLs /\ [][NextLs]_vars

(***************************************************************************)
(* Runs of rm                                                              *)
(*                                                                         *)
(* ptrm keeps id and subpath in package-level variables, so the subpath    *)
(* one Run of a process sets is there for the next.  id is assigned by     *)
(* every Run that gets past its argument checks, and the flag variable     *)
(* ptRoot is set anew by initFlags.                                        *)
(***************************************************************************)
\* a variant of DeletePairtreeItem that removes without looking first
DeletePairtreeItemUnchecked(f, fullPath) ==
    IF Blocked(f, Key(fullPath)) THEN [fs |-> f, err |-> "io"]
    ELSE [fs |-> RemoveAll(f, Key(fullPath)), err |-> "nil"]

\* DeletePairtreeItem: [fs, err]; os.RemoveAll fails on a path below a file
DeletePairtreeItem(f, fullPath) ==
    IF StatNotExist(f, fullPath) THEN [fs |-> f, err |-> "ErrNotExist"]
    ELSE IF Blocked(f, Key(fullPath)) THEN [fs |-> f, err |-> "io"]
    ELSE [fs |-> RemoveAll(f, Key(fullPath)), err |-> "nil"]

RmFail(f, e, subpath) == [fs |-> f, err |-> e, out |-> <<>>, subpath |-> subpath]

\* ptrm.Run once the pairpath pp of the id is made
RmDelete(f, pp, subpath) ==
    IF pp.err # "nil" THEN RmFail(f, pp.err, subpath)
    ELSE LET fullPath == Join(pp.path, subpath)
             d == DeletePairtreeItem(f, fullPath)
         IN [fs |-> d.fs, err |-> d.err, out |-> fullPath, subpath |-> subpath]

\* ptrm.Run once its arguments are read: subpath is the package variable
RmChecked(f, ptRoot, id, subpath) ==
    IF CheckPTVer(f, ptRoot) # "nil" THEN RmFail(f, CheckPTVer(f, ptRoot), subpath)
    ELSE IF GetPrefix(f, ptRoot).err # "nil" THEN RmFail(f, GetPrefix(f, ptRoot).err, subpath)
    ELSE RmDelete(f, CreatePP(id, ptRoot, PrefixOrDefault(GetPrefix(f, ptRoot))), subpath)

\* ptrm.Run: [fs, err, out, subpath]; ptRoot is the value of --pairtree or
\* of PAIRTREE_ROOT, args the other arguments, stale the package variable
\* subpath as the Run finds it; out is the path given to DeletePairtreeItem
RmRun(f, ptRoot, args, stale) ==
    IF ptRoot = <<>> THEN RmFail(f, "Err7", stale)
    ELSE IF Len(args) < 1 THEN RmFail(f, "Err6", stale)
    ELSE IF Len(args) = 1 THEN RmChecked(f, ptRoot, args[1], stale)
    ELSE IF Len(args) = 2 THEN RmChecked(f, ptRoot, args[1], args[2])
    ELSE RmFail(f, "Err8", stale)

\* a pairtree at /pt, with the prefix file holding ark:/ or without one,
\* holding object ab (f, d/g) and object cd (h)
RmBase ==
    FileAt(Join(PtRoot, verDir), <<"v">>)
    @@ FileAt(ObjAB \o <<Sep, "f">>, <<"1">>)
    @@ FileAt(ObjAB \o <<Sep, "d", Sep, "g">>, <<"2">>)
    @@ FileAt(ObjCD \o <<Sep, "h">>, <<"3">>)
    @@ DirsTo(ObjAB \o <<Sep, "d">>) @@ DirsTo(ObjCD)

RmFS == {RmBase, FileAt(Join(PtRoot, prefixDir), ArkPrefix) @@ RmBase}

RmIds == {ArkPrefix \o AB, PtPrefix \o AB, ArkPrefix \o CD, AB}

RmSubpaths ==
    {<<"f">>, <<"d">>, <<"d", Sep, "g">>, <<"x">>, <<"f", Sep, "x">>,
     <<".", ".">>, <<".", ".", Sep, ".", ".">>, <<".", ".", Sep, ".", ".", Sep, ".", ".">>,
     <<"d", Sep, ".", ".", Sep, "f">>}

RmArgs ==
    {<<>>} \cup {<<id>> : id \in RmIds}
    \cup {<<id, sub>> : id \in RmIds, sub \in RmSubpaths}
    \cup {<<ArkPrefix \o AB, <<"f">>, <<"d">>>>}

RmDone(ptRoot, args, f, r) ==
    /\ fs' = r.fs
    /\ pkg' = [subpath |-> r.subpath]
    /\ last' = [Idle EXCEPT !.op = "rm", !.args = args, !.root = ptRoot, !.err = r.err,
                            !.out = r.out, !.pre = f, !.c = r.subpath]

\* one more Run of ptrm in a process that runs ptrm
RmCall ==
    /\ steps < MaxRuns
    /\ last.op \in {"none", "rm"}
    /\ steps' = steps + 1
    /\ \E ptRoot \in {PtRoot, <<>>}, args \in RmArgs :
          RmDone(ptRoot, args, fs, RmRun(fs, ptRoot, args, pkg.subpath))
    /\ UNCHANGED <<exported, history>>

InitRm ==
    fs \in RmFS /\ last = Idle /\ exported = NoExport /\ history = <<>> /\ pkg = NoPkg /\ steps = 0

NextRm == RmCall

SpecRm == InitRm /\ [][NextRm]_vars

(***************************************************************************)
(* Calls of the functions of the pairtree package                          *)
(***************************************************************************)
\* the prefix file of /pt: none, an empty one, ark:/, and ark:/ with white
\* space around it; the version file of /q: populated or empty
LibFS ==
    {BaseFS,
     FileAt(Join(PtRoot, prefixDir), <<>>) @@ BaseFS,
     FileAt(Join(PtRoot, prefixDir), ArkPrefix) @@ BaseFS,
     FileAt(Join(PtRoot, prefixDir), ArkPrefix \o <<"\n">>) @@ BaseFS,
     FileAt(Join(PtRoot, prefixDir), <<" ">> \o ArkPrefix) @@ BaseFS,
     FileAt(Join(QRoot, verDir), <<>>) @@ BaseFS}

\* pairtree roots with both files or the version file only, a directory
\* with neither, a path that does not exist, and a regular file
LibRoots == {PtRoot, QRoot, OutDir, NewDir, OutF}

DeleteArgs == {ObjAB, ObjAB \o <<Sep, "f">>, ObjAB \o <<Sep, "d">>, ObjCD, NewDir, BelowF, <<>>}

GetPrefixCall ==
    /\ steps = 0
    /\ steps' = 1
    /\ \E ptRoot \in LibRoots :
          LET r == GetPrefix(fs, ptRoot)
          IN last' = [Idle EXCEPT !.op = "GetPrefix", !.root = ptRoot, !.err = r.err,
                                  !.out = r.prefix, !.pre = fs]
    /\ UNCHANGED <<fs, exported, history, pkg>>

CheckPTVerCall ==
    /\ steps = 0
    /\ steps' = 1
    /\ \E ptRoot \in LibRoots :
          last' = [Idle EXCEPT !.op = "CheckPTVer", !.root = ptRoot,
                               !.err = CheckPTVer(fs, ptRoot), !.pre = fs]
    /\ UNCHANGED <<fs, exported, history, pkg>>

DeletePairtreeItemCall ==
    /\ steps = 0
    /\ steps' = 1
    /\ \E fullPath \in DeleteArgs :
          LET r == DeletePairtreeItem(fs, fullPath)
          IN /\ fs' = r.fs
             /\ last' = [Idle EXCEPT !.op = "DeletePairtreeItem", !.a = fullPath,
                                     !.err = r.err, !.pre = fs]
    /\ UNCHANGED <<exported, history, pkg>>

InitLib ==
    fs \in LibFS /\ last = Idle /\ exported = NoExport /\ history = <<>> /\ pkg = NoPkg /\ steps = 0

NextLib ==
    \/ GetPrefixCall
    \/ CheckPTVerCall
    \/ CreatePPCall
    \/ DeletePairtreeItemCall
    \/ RecursiveFilesCall
    \/ NonRecursiveFilesCall
    \/ CopyCall

SpecLib == InitLib /\ [][NextLib]_vars

(***************************************************************************)
(* Runs of the four commands on one pairtree                               *)
(***************************************************************************)
InitPrefix ==
    fs \in InitFS /\ last = Idle /\ exported = NoExport /\ history = <<>> /\ pkg = NoPkg /\ steps = 0

NextPrefix == LsCall \/ RmCall \/ MvCall \/ CpCall

SpecPrefix == InitPrefix /\ [][NextPrefix]_vars

(***************************************************************************)
(* Claims about the codec                                                  *)
(***************************************************************************)
\* the groups of e read off by position: characters 2i-1 and 2i
GroupsOf(e) ==
    [i \in 1..((Len(e) + 1) \div 2) |->
        SubSeq(e, 2 * i - 1, IF 2 * i <= Len(e) THEN 2 * i ELSE Len(e))]

\* root/pairtree_root/g1/.../gk/e
ExpectedPP(ptRoot, rest) ==
    LET e == EncodeChar(rest)
    IN Clean(ptRoot \o <<Sep>> \o rootDir \o <<Sep>>
             \o Unsplit(GroupsOf(e)) \o <<Sep>> \o e)

PPCase ==
    /\ last.op = "CreatePP"
    /\ TrimSpace(last.b) # <<>>
    /\ HasPrefix(last.a, last.c)
    /\ TrimPrefix(last.a, last.c) # <<>>

\* C1 as stated: for a non-blank root and id = prefix + s with s non-empty,
\* CreatePP succeeds and returns root/pairtree_root/g1/.../gk/e.
C1_Original ==
    PPCase => /\ last.err = "nil"
              /\ last.out = ExpectedPP(last.b, TrimPrefix(last.a, last.c))

\* C1 (amended): the same, for an id that is not blank (not only whitespace);
\* a blank id is rejected with Err4 before the prefix is looked at.
C1_CreatePPPath ==
    (PPCase /\ TrimSpace(last.a) # <<>>)
        => /\ last.err = "nil"
           /\ last.out = ExpectedPP(last.b, TrimPrefix(last.a, last.c))

C1_Witness ==
    /\ PPCase
    /\ last.c = ArkPrefix
    /\ last.b = <<"r">>
    /\ last.a = ArkPrefix \o <<"3", ":", "4">>
    /\ last.err = "nil"
    /\ last.out = <<"r", Sep>> \o rootDir \o <<Sep, "3", "+", Sep, "4", Sep, "3", "+", "4">>

EncTable == [b \in EncInputs |-> EncodeChar(b)]

\* the encodings of all the inputs
EncImages == {EncTable[b] : b \in EncInputs}

\* C2: the reserved-character encoding is injective: the input just encoded
\* is one of as many inputs as there are distinct encodings, so no other
\* input has its encoding.
C2_EncodeInjective ==
    last.op = "EncodeChar"
        => /\ last.out = EncTable[last.a]
           /\ Cardinality(EncImages) = Cardinality(EncInputs)

C2_Witness ==
    /\ last.op = "EncodeChar"
    /\ last.a = <<"^", "3", "d">>
    /\ last.out = <<"^", "5", "e", "3", "d">>
    /\ EncTable[<<"=">>] = <<"^", "3", "d">>

\* C3: CreatePP rejects an id whose remainder after the prefix is empty and
\* returns no path for it.
C3_EmptyRemainderRejected ==
    (/\ last.op = "CreatePP"
     /\ HasPrefix(last.a, last.c)
     /\ TrimPrefix(last.a, last.c) = <<>>)
        => last.err # "nil" /\ last.out = <<>>

(***************************************************************************)
(* Claims about the archive engine                                         *)
(***************************************************************************)
\* the archive UnTarGz was given, as it was when the call started
ArchiveGiven == last.pre[Key(last.a)].tar

\* the names at the top level of a set of archive entries
TopNames(entries) == {e.p[1] : e \in entries}

\* the top-level name is a directory: it has an entry below it, or its own
\* entry is a directory
TopIsDir(entries, name) ==
    \E e \in entries : e.p[1] = name /\ (Len(e.p) > 1 \/ e.n.kind = "dir")

SingleFolder(entries) ==
    /\ Cardinality(TopNames(entries)) = 1
    /\ \A name \in TopNames(entries) : TopIsDir(entries, name)

\* what lies below the top-level folders of the entries, by relative path
FolderTree(entries) ==
    LET rels == UNION {{SubSeq(e.p, 2, i) : i \in 1..Len(e.p)} : e \in entries}
    IN [rel \in rels |->
          IF \E e \in entries : Tail(e.p) = rel
          THEN (CHOOSE e \in entries : Tail(e.p) = rel).n
          ELSE DirNode]

\* UnTarGz was called and the archive was extracted
Extraction ==
    /\ last.op = "UnTarGz"
    /\ last.temp # <<>>
    /\ IsFile(last.pre, Key(last.a))
    /\ last.pre[Key(last.a)].data = TgzMagic

\* C4: once the archive is extracted, UnTarGz returns Err12 unless the archive
\* has exactly one top-level entry and that entry is a directory; otherwise it
\* returns Err13 when the entry's name is not the base name of dest; it
\* succeeds only for a single top-level folder named like dest.
C4_ArchiveShape ==
    Extraction =>
        /\ (last.err = "Err12") <=> ~SingleFolder(ArchiveGiven)
        /\ SingleFolder(ArchiveGiven) =>
              ((last.err = "Err13") <=> TopNames(ArchiveGiven) # {Base(last.b)})
        /\ (last.err = "nil") =>
              SingleFolder(ArchiveGiven) /\ TopNames(ArchiveGiven) = {Base(last.b)}

C4_Witness ==
    /\ Extraction
    /\ last.a = FlatTgz
    /\ last.b = ObjAB
    /\ TopNames(ArchiveGiven) = {Base(last.b)}
    /\ last.err = "Err12"

\* C6: after a successful UnTarGz, dest holds exactly the contents of the
\* archive's top-level folder: nothing that was in dest before remains unless
\* the archive has it too.
C6_ImportReplaces ==
    (last.op = "UnTarGz" /\ last.err = "nil")
        => Subtree(fs, Key(last.b)) = FolderTree(ArchiveGiven)

C6_Witness ==
    /\ last.op = "UnTarGz"
    /\ last.err = "nil"
    /\ last.a = GoodTgz
    /\ last.b = ObjAB
    /\ Exists(last.pre, Key(ObjAB \o <<Sep, "f">>))
    /\ ~Exists(fs, Key(ObjAB \o <<Sep, "f">>))
    /\ fs[Key(ObjAB \o <<Sep, "k">>)] = FileNode(<<"9">>)

\* C7: an archive written by TarGz, for any prefix, imports with UnTarGz into
\* an object directory of the same base name, and the directory then has the
\* files, contents and layout of the directory that was archived.
C7_RoundTrip ==
    (/\ last.op = "UnTarGz"
     /\ exported # NoExport
     /\ last.a = exported.path
     /\ Base(last.b) = exported.base
     /\ last.fault = "none")
        => /\ last.err = "nil"
           /\ Subtree(fs, Key(last.b)) = exported.tree

C7_Witness ==
    /\ last.op = "UnTarGz"
    /\ last.a = OutDir \o <<Sep, "a", "r", "k", "+", "=">> \o AB \o tar
    /\ last.a = exported.path
    /\ last.b = ObjQ
    /\ last.err = "nil"
    /\ fs[Key(ObjQ \o <<Sep, "d", Sep, "g">>)] = FileNode(<<"2">>)
    /\ ~Exists(fs, Key(ObjQ \o <<Sep, "z">>))

\* C8: whenever UnTarGz has created its temporary directory, the directory
\* is gone when UnTarGz returns, with or without an error.
C8_TempDirRemoved ==
    (last.op = "UnTarGz" /\ last.temp # <<>>) => ~Exists(fs, last.temp)

C8_Witness ==
    /\ last.op = "UnTarGz"
    /\ last.temp # <<>>
    /\ last.err = "Err13"
    /\ Under(Key(<<Sep, "tmp">>), last.temp)
    /\ ~Exists(fs, last.temp)

(***************************************************************************)
(* Claims about mv and cp                                                  *)
(***************************************************************************)
\* the command went as far as UnTarGz
ImportReached ==
    /\ last.op \in {"mv", "cp"}
    /\ last.tar
    /\ ~last.fromPt
    /\ last.stage \in {"transfer", "rmsrc", "done"}

\* the path holds now what it held when the command started
Untouched(path) ==
    /\ StatOk(fs, path)
    /\ Subtree(fs, Key(path)) = Subtree(last.pre, Key(path))

\* C5: when an import through cp -a or mv -a fails in UnTarGz, for any reason,
\* the object directory that was at the destination before the command is
\* still there with all of its contents unchanged.
C5_FailedImportKeepsDest ==
    (/\ ImportReached
     /\ last.stage = "transfer"
     /\ StatIsDir(last.pre, last.rdest))
        => Untouched(last.rdest)

\* where a successful mv has put the source
MvFinal == IF last.tar /\ ~last.fromPt THEN last.rdest ELSE last.out

\* the destination of a successful mv holds a copy of what the source was:
\* its tree, an archive of its tree, or the tree its archive holds
MvCopied ==
    IF ~last.tar
    THEN Subtree(fs, Key(MvFinal)) = Subtree(last.pre, Key(last.rsrc))
    ELSE IF last.fromPt
    THEN /\ IsFile(fs, Key(MvFinal))
         /\ fs[Key(MvFinal)].data = TgzMagic
         /\ TopNames(fs[Key(MvFinal)].tar) = {Base(last.rsrc)}
         /\ FolderTree(fs[Key(MvFinal)].tar) = Subtree(last.pre, Key(last.rsrc))
    ELSE Subtree(fs, Key(MvFinal)) = FolderTree(last.pre[Key(last.rsrc)].tar)

C10_FailedMoveKeepsSource ==
    (/\ last.op = "mv"
     /\ last.stage = "transfer"
     /\ StatOk(last.pre, last.rsrc))
        => /\ last.err # "nil"
           /\ Untouched(last.rsrc)

(***************************************************************************)
(* Claims about copying and unique names                                   *)
(***************************************************************************)
CopyDone == last.op = "copy" /\ last.err = "nil"

\* the successful copies without overwrite, by position in history
Cautious == {i \in DOMAIN history : history[i].op = "copy" /\ ~history[i].overwrite}

\* C11: a copy without overwrite never writes to a path that existed before
\* the call and leaves everything that existed as it was; the paths returned
\* by successive such copies to one destination are pairwise distinct.
C11_NoOverwrite ==
    /\ (CopyDone /\ ~last.overwrite)
          => /\ ~Exists(last.pre, Key(last.out))
             /\ \A k \in DOMAIN last.pre : k \in DOMAIN fs /\ fs[k] = last.pre[k]
    /\ \A i \in Cautious, j \in Cautious :
          (i < j /\ history[i].dest = history[j].dest)
              => Key(history[i].out) # Key(history[j].out)

C11_Witness ==
    /\ CopyDone
    /\ Len(history) = 2
    /\ Cautious = {1, 2}
    /\ history[1].dest = OutDir
    /\ history[2].dest = OutDir
    /\ history[1].out = OutF1
    /\ history[2].out = OutDir \o <<Sep, "f", ".", "2">>
    /\ fs[Key(OutF)] = FileNode(<<"4">>)
    /\ fs[Key(OutF1)] = FileNode(<<"1">>)

\* where CopyFileOrFolder aims before any renaming: below dest when dest is
\* an existing directory or ends with the separator, else dest itself
CopyTarget ==
    IF IsDir(last.pre, Key(last.b)) \/ last.b[Len(last.b)] = Sep
    THEN Append(Key(last.b), Key(last.a)[Len(Key(last.a))])
    ELSE Key(last.b)

\* C12: the copy target is dest/base(src) when dest is an existing directory
\* or ends with the separator, and exactly dest otherwise; a successful copy
\* returns the path it wrote the source to.
C12_CopyTarget ==
    CopyDone =>
        /\ Subtree(fs, Key(last.out)) = Subtree(last.pre, Key(last.a))
        /\ (last.overwrite \/ ~Exists(last.pre, CopyTarget))
              => Key(last.out) = CopyTarget
        /\ (~last.overwrite /\ Exists(last.pre, CopyTarget))
              => Parent(Key(last.out)) = Parent(CopyTarget)
        /\ (CopyTarget = Key(last.b) /\ (last.overwrite \/ ~Exists(last.pre, CopyTarget)))
              => last.out = last.b

C12_Witness ==
    /\ CopyDone
    /\ last.a = ObjAB \o <<Sep, "d">>
    /\ last.b = NewDir \o <<Sep>>
    /\ ~Exists(last.pre, Key(NewDir))
    /\ last.out = NewDir \o <<Sep, "d">>
    /\ fs[Key(NewDir \o <<Sep, "d", Sep, "g">>)] = FileNode(<<"2">>)

UniqueDone == last.op = "unique"

\* the n-th name GetUniqueDestination tries for p: p's name with n put before
\* its last extension, in p's directory
Candidate(p, n) ==
    Join(Dir(p), TrimSuffix(Base(p), Ext(Base(p))) \o <<".">> \o Dec(n) \o Ext(Base(p)))

\* C13: GetUniqueDestination(p) returns p when p does not exist, otherwise
\* base.n.ext for the smallest n >= 1 for which that name does not exist, and
\* it changes nothing in the filesystem.
C13_UniqueName ==
    UniqueDone =>
        /\ last.err = "nil"
        /\ fs = last.pre
        /\ IF ~StatOk(last.pre, last.a) THEN last.out = last.a
           ELSE \E n \in 1 .. (Cardinality(DOMAIN last.pre) + 1) :
                  /\ last.out = Candidate(last.a, n)
                  /\ ~StatOk(last.pre, Candidate(last.a, n))
                  /\ \A m \in 1 .. (n - 1) : StatOk(last.pre, Candidate(last.a, m))

\* a path that ends in a dot and one digit
NumericSuffix(p) ==
    /\ Len(p) >= 3
    /\ p[Len(p) - 1] = "."
    /\ \E n \in 0 .. 9 : Dec(n) = <<p[Len(p)]>>

\* the path with its numeric suffix raised by one
Bumped(p) ==
    SubSeq(p, 1, Len(p) - 1) \o Dec((CHOOSE n \in 0 .. 9 : Dec(n) = <<p[Len(p)]>>) + 1)

\* C14: GetUniqueDestination on an existing path that ends in .N returns the
\* path with .(N+1), a name that does not exist; on a path that does not
\* exist it returns the path itself.
C14_SuffixBump ==
    UniqueDone =>
        /\ (StatOk(last.pre, last.a) /\ NumericSuffix(last.a))
              => /\ last.err = "nil"
                 /\ last.out = Bumped(last.a)
                 /\ ~StatOk(last.pre, last.out)
        /\ ~StatOk(last.pre, last.a) => (last.err = "nil" /\ last.out = last.a)

(***************************************************************************)
(* Claims about exports                                                    *)
(***************************************************************************)
ExportDone == last.op = "TarGz" /\ last.err = "nil"

\* the base name of the exported object
ExportBase == Key(last.a)[Len(Key(last.a))]

\* the prefix as it appears in an archive's name
ExportPrefix == IF last.c = <<>> THEN <<>> ELSE <<"a", "r", "k", "+", "=">>

\* destDir/<encoded prefix><base>.tgz and destDir/<encoded prefix><base>.n.tgz
ExportTarget == Append(Key(last.b), ExportPrefix \o ExportBase \o tar)

ExportNumbered(n) == Append(Key(last.b), ExportPrefix \o ExportBase \o <<".">> \o Dec(n) \o tar)

Careful == {i \in DOMAIN history : ~history[i].overwrite}

\* C16: TarGz without overwrite succeeds without touching anything that
\* existed: when <encoded prefix><base>.tgz exists the archive goes to
\* <encoded prefix><base>.n.tgz for the smallest unused n >= 1, so successive
\* exports of an object into one directory leave distinct archives and the
\* earlier ones as they were written.
C16_ExportUnique ==
    /\ (last.op = "TarGz" /\ ~last.overwrite) =>
          /\ last.err = "nil"
          /\ ~Exists(last.pre, Key(last.out))
          /\ \A k \in DOMAIN last.pre : k \in DOMAIN fs /\ fs[k] = last.pre[k]
          /\ Exists(last.pre, ExportTarget) =>
                \E n \in 1 .. MaxExports :
                    /\ Key(last.out) = ExportNumbered(n)
                    /\ \A m \in 1 .. (n - 1) : Exists(last.pre, ExportNumbered(m))
    /\ \A i \in Careful, j \in Careful :
          (i < j /\ history[i].dest = history[j].dest)
              => Key(history[i].out) # Key(history[j].out)
    /\ \A i \in DOMAIN history :
          (\A j \in DOMAIN history : j > i => j \in Careful)
              => fs[Key(history[i].out)] = history[i].node

C16_Witness ==
    /\ ExportDone
    /\ Careful = {1, 2, 3}
    /\ \A i \in Careful : history[i].src = ObjAB /\ history[i].dest = OutDir
                            /\ history[i].prefix = ArkPrefix
    /\ Key(history[1].out) = ExportTarget
    /\ Key(history[2].out) = ExportNumbered(1)
    /\ Key(history[3].out) = ExportNumbered(2)
    /\ Cardinality({Key(history[i].out) : i \in Careful}) = 3

(***************************************************************************)
(* Claims about the arguments of cp and mv                                 *)
(***************************************************************************)
CmdDone == last.op \in {"mv", "cp"}

\* the pairtree of the run is in order: its version file is populated and
\* its prefix file, when there is one, is not empty
RootValid ==
    /\ CheckPTVer(last.pre, last.root) = "nil"
    /\ GetPrefix(last.pre, last.root).err = "nil"

\* the prefix of the run: the content of the prefix file, pt:// without one
RunPrefix ==
    IF Exists(last.pre, Key(Join(last.root, prefixDir)))
    THEN last.pre[Key(Join(last.root, prefixDir))].data
    ELSE PtPrefix

\* cp was given both -a and -n
BothFlags == last.op = "cp" /\ last.tar /\ last.c # <<>>

\* C17: cp and mv on a pairtree in order return Err10 when neither argument
\* starts with the prefix, and the filesystem is then as it was.
C17_NoPrefixErr10 ==
    /\ (CmdDone /\ ~BothFlags /\ RootValid
          /\ ~HasPrefix(last.a, RunPrefix) /\ ~HasPrefix(last.b, RunPrefix))
         => last.err = "Err10"
    /\ (CmdDone /\ last.err = "Err10") => fs = last.pre

C17_Witness ==
    /\ last.op = "mv"
    /\ last.err = "Err10"
    /\ last.a = ObjAB \o <<Sep, "f">>
    /\ last.b = OutDir
    /\ last.root = PtRoot
    /\ fs = last.pre
    /\ fs[Key(ObjAB \o <<Sep, "f">>)] = FileNode(<<"1">>)

\* C18: cp with both -a and -n returns Err11 whatever the pairtree root,
\* the arguments and the filesystem are, and changes nothing.
C18_BothFlagsErr11 ==
    BothFlags => (last.err = "Err11" /\ last.stage = "args" /\ fs = last.pre)

C18_Witness ==
    /\ BothFlags
    /\ last.err = "Err11"
    /\ last.root = InDir
    /\ ~RootValid
    /\ last.a = GoodTgz
    /\ last.b = ArkCD
    /\ fs = last.pre

(***************************************************************************)
(* Claims about listings                                                   *)
(***************************************************************************)
\* the immediate children of the directory at path string p
ChildrenOf(p) ==
    {[name |-> k[Len(k)], isDir |-> last.pre[k].kind = "dir"] :
        k \in {q \in DOMAIN last.pre : q # <<>> /\ Parent(q) = Key(p)}}

\* the directories below the listed directory, as path strings
Descendants ==
    {<<Sep>> \o Unsplit(k) :
        k \in {q \in DOMAIN last.pre :
                 Under(Key(last.a), q) /\ q # Key(last.a) /\ last.pre[q].kind = "dir"}}

\* the value at key is a listing of exactly the children of key, each once
Lists(key) ==
    LET v == Lookup(last.map, key)
    IN /\ {v[i] : i \in DOMAIN v} = ChildrenOf(key)
       /\ Len(v) = Cardinality(ChildrenOf(key))

ListedDir(op) == last.op = op /\ StatIsDir(last.pre, last.a)

\* C19: for an existing directory NonRecursiveFiles returns a map whose only
\* key is the directory, holding its immediate children; RecursiveFiles
\* returns a map that holds at the directory and at every directory below it
\* that directory's immediate children, each once, has no other key, and
\* lists the directory itself nowhere.
C19_Listings ==
    /\ ListedDir("NonRecursiveFiles") =>
          /\ last.err = "nil"
          /\ DOMAIN last.map = {last.a}
          /\ Lists(last.a)
    /\ ListedDir("RecursiveFiles") =>
          /\ last.err = "nil"
          /\ Lists(last.a)
          /\ \A d \in Descendants : d \in DOMAIN last.map /\ Lists(d)
          /\ DOMAIN last.map \subseteq {last.a} \cup Descendants
          /\ \A k \in DOMAIN last.map : \A i \in DOMAIN last.map[k] :
                Join(k, last.map[k][i].name) # last.a

C19_Witness ==
    /\ ListedDir("RecursiveFiles")
    /\ last.a = ObjAB
    /\ DOMAIN last.map = {ObjAB, ObjAB \o <<Sep, "d">>, ObjAB \o <<Sep, "d", Sep, "e">>,
                          ObjAB \o <<Sep, ".", "h">>}
    /\ last.map[ObjAB] = <<[name |-> <<".", "h">>, isDir |-> TRUE],
                           [name |-> <<".", "x">>, isDir |-> FALSE],
                           [name |-> <<"d">>, isDir |-> TRUE],
                           [name |-> <<"f">>, isDir |-> FALSE]>>
    /\ last.map[ObjAB \o <<Sep, "d">>] = <<[name |-> <<"e">>, isDir |-> TRUE],
                                           [name |-> <<"g">>, isDir |-> FALSE]>>
    /\ last.map[ObjAB \o <<Sep, "d", Sep, "e">>] = <<>>

\* C20: after RecursiveFiles succeeds on a directory, that directory and
\* every directory below it is a key of the map, with an empty list when the
\* directory is empty.
C20_EveryDirIsKey ==
    (ListedDir("RecursiveFiles") /\ last.err = "nil") =>
        \A d \in {last.a} \cup Descendants :
            /\ d \in DOMAIN last.map
            /\ ChildrenOf(d) = {} => last.map[d] = <<>>

(***************************************************************************)
(* Claims about ls                                                         *)
(***************************************************************************)
LsListing == last.op = "ls" /\ last.err = "nil"

\* a path with a hidden component: a hidden directory or something below one
BelowHidden(k) == \E i \in DOMAIN Comps(k) : IsHidden(Comps(k)[i])

\* C21: after ls has filtered hidden entries (no -a), no value of the map
\* holds an entry whose name starts with a dot, and no key is a hidden
\* directory or a directory anywhere below one.
C21_HiddenSubtreesGone ==
    (LsListing /\ "a" \notin last.flags) =>
        \A k \in DOMAIN last.map :
            /\ \A i \in DOMAIN last.map[k] : ~IsHidden(last.map[k][i].name)
            /\ ~BelowHidden(k)

\* the entries ls shows for the object directory
LsShown == {Lookup(last.map, last.out)[i] : i \in DOMAIN Lookup(last.map, last.out)}

\* C22 as stated: ls without any flag lists the hidden entries of the object
\* directory together with the visible ones.
C22_Original ==
    (LsListing /\ last.flags = {}) => LsShown = ChildrenOf(last.out)

\* C22: ls without -a lists the entries of the object directory whose names
\* do not start with a dot, and only those; with -a it lists the hidden
\* entries together with the visible ones.
C22_HiddenOnlyWithA ==
    /\ (LsListing /\ last.flags = {})
          => LsShown = {e \in ChildrenOf(last.out) : ~IsHidden(e.name)}
    /\ (LsListing /\ last.flags = {"a"}) => LsShown = ChildrenOf(last.out)

C22_Witness ==
    /\ LsListing
    /\ last.flags = {}
    /\ [name |-> <<".", "x">>, isDir |-> FALSE] \in ChildrenOf(last.out)
    /\ [name |-> <<".", "h">>, isDir |-> TRUE] \in ChildrenOf(last.out)
    /\ last.map = (ObjAB :> <<[name |-> <<"d">>, isDir |-> TRUE],
                              [name |-> <<"f">>, isDir |-> FALSE]>>)

\* the nodes of a tree, each with the path its names spell from the root
RECURSIVE TreeNodes(_, _)
TreeNodes(node, path) ==
    {<<path, node>>}
    \cup UNION {TreeNodes(node.directories[i], Join(path, node.directories[i].name)) :
                  i \in DOMAIN node.directories}

\* the directories the map reaches from path through its directory entries
RECURSIVE ReachedDirs(_, _)
ReachedDirs(entriesMap, path) ==
    {path}
    \cup UNION {ReachedDirs(entriesMap, Join(path, Lookup(entriesMap, path)[i].name)) :
                  i \in {j \in DOMAIN Lookup(entriesMap, path) : Lookup(entriesMap, path)[j].isDir}}

NamesOf(entries) == [i \in DOMAIN entries |-> entries[i].name]

LsTree == LsListing /\ "j" \in last.flags

\* C23: the tree BuildDirectoryTree(root, map, true) makes has the root
\* node named with the full root path and every other node with its base
\* name; a node's Directories are the directory entries of the map's value
\* at the node's path and its Files the other entries, each in the map's
\* order; every entry the map reaches from the root appears exactly once.
C23_TreeShape ==
    LsTree =>
        /\ last.tree.name = last.out
        /\ \A n \in TreeNodes(last.tree, last.out) :
              /\ n[1] # last.out => n[2].name = Base(n[1])
              /\ NamesOf(n[2].directories)
                    = NamesOf(SelectSeq(Lookup(last.map, n[1]), IsDirectory))
              /\ NamesOf(n[2].files)
                    = NamesOf(SelectSeq(Lookup(last.map, n[1]), IsFileEntry))
        /\ {n[1] : n \in TreeNodes(last.tree, last.out)} = ReachedDirs(last.map, last.out)
        /\ Cardinality(TreeNodes(last.tree, last.out))
              = Cardinality(ReachedDirs(last.map, last.out))

C23_Witness ==
    /\ LsTree
    /\ last.flags = {"j", "r", "a"}
    /\ Cardinality(TreeNodes(last.tree, last.out)) >= 3
    /\ \E n \in TreeNodes(last.tree, last.out) :
          n[1] # last.out /\ n[2].files # <<>> /\ n[2].name = Base(n[1])
    /\ Len(last.tree.directories) >= 2
    /\ last.tree.files # <<>>

(***************************************************************************)
(* Claims about rm                                                         *)
(***************************************************************************)
RmRan == last.op = "rm"

\* the object directory of the identifier a run of rm was given
RmObject == CreatePP(last.args[1], last.root, RunPrefix).path

\* the paths a run removed
Removed == DOMAIN last.pre \ DOMAIN fs

\* C28: what a Run of rm returns and does to the filesystem is what a first
\* Run of a process would with the same arguments on the same filesystem;
\* given a single ID, a Run that succeeds removes the object directory
\* itself, whatever Runs came before it.
C28_RunsIndependent ==
    RmRan =>
        /\ fs = RmRun(last.pre, last.root, last.args, <<>>).fs
        /\ last.err = RmRun(last.pre, last.root, last.args, <<>>).err
        /\ (Len(last.args) = 1 /\ last.err = "nil") => ~Exists(fs, Key(RmObject))

\* C29: rm given an ID and a subpath removes nothing outside the object
\* directory of the ID, whatever the subpath is.
C29_RemovesInsideObject ==
    (RmRan /\ Len(last.args) = 2 /\ RootValid) =>
        \A p \in Removed : Under(Key(RmObject), p)

(***************************************************************************)
(* Claims about the probes of GetUniqueDestination                         *)
(***************************************************************************)
\* os.Stat answers every path GetUniqueDestination(dest) asks about with
\* "exists" or "not found": neither dest nor a name next to it lies below
\* a file
TwoAnswers(f, dest) ==
    /\ ~Blocked(f, Key(dest))
    /\ ~Blocked(f, Key(Join(Dir(dest), <<"x">>)))

\* C30: on a filesystem where every probe answers "exists" or "not found",
\* GetUniqueDestination returns, and os.Stat of the path it returns
\* answers "not found".
C30_ProbesEnd ==
    (UniqueDone /\ TwoAnswers(last.pre, last.a)) =>
        /\ last.err = "nil"
        /\ StatNotExist(last.pre, last.out)

C30_Witness ==
    /\ UniqueDone
    /\ TwoAnswers(last.pre, last.a)
    /\ last.a = OutF
    /\ StatOk(last.pre, OutF)
    /\ StatOk(last.pre, OutF1)
    /\ last.err = "nil"
    /\ last.out = OutDir \o <<Sep, "f", ".", "2">>

(***************************************************************************)
(* Claims about the marker files and the errors of the package             *)
(***************************************************************************)
PrefixFile == Key(Join(last.root, prefixDir))
VersionFile == Key(Join(last.root, verDir))

\* C25: GetPrefix returns the empty string and no error when the prefix
\* file is absent, and the file's contents with the white space around
\* them trimmed when the file is there and not empty.
C25_PrefixTrimmed ==
    last.op = "GetPrefix" =>
        /\ NotExist(last.pre, PrefixFile) => (last.out = <<>> /\ last.err = "nil")
        /\ (IsFile(last.pre, PrefixFile) /\ last.pre[PrefixFile].data # <<>>)
              => (last.err = "nil" /\ last.out = TrimSpace(last.pre[PrefixFile].data))

\* C26: CreatePP returns Err3 for a blank root, otherwise Err4 for a blank
\* id, otherwise Err5 for an id that lacks the prefix, with an empty path
\* each time; CheckPTVer returns Err2 for a version file that is there and
\* empty; GetPrefix returns Err1 for a prefix file that is there and empty.
C26_ArgumentErrors ==
    /\ last.op = "CreatePP" =>
          /\ TrimSpace(last.b) = <<>> => last.err = "Err3"
          /\ (TrimSpace(last.b) # <<>> /\ TrimSpace(last.a) = <<>>) => last.err = "Err4"
          /\ (TrimSpace(last.b) # <<>> /\ TrimSpace(last.a) # <<>>
                 /\ ~HasPrefix(last.a, last.c)) => last.err = "Err5"
          /\ last.err \in {"Err3", "Err4", "Err5"} => last.out = <<>>
    /\ (last.op = "CheckPTVer" /\ IsFile(last.pre, VersionFile)
          /\ last.pre[VersionFile].data = <<>>) => last.err = "Err2"
    /\ (last.op = "GetPrefix" /\ IsFile(last.pre, PrefixFile)
          /\ last.pre[PrefixFile].data = <<>>) => (last.err = "Err1" /\ last.out = <<>>)

C26_Witness ==
    /\ last.op = "CreatePP"
    /\ last.b = <<" ">>
    /\ last.a = <<>>
    /\ last.c = ArkPrefix
    /\ last.err = "Err3"

\* the call answers with an error that matches os.ErrNotExist and leaves
\* the filesystem as it was
AnswersNotExist == last.err = "ErrNotExist" /\ fs = last.pre

\* C27: CheckPTVer without a version file, NonRecursiveFiles and
\* RecursiveFiles on a path that does not exist, CopyFileOrFolder with a
\* source that does not exist and DeletePairtreeItem on a path that does
\* not exist return a not-exist error and change nothing.
C27_NotExist ==
    /\ (last.op = "CheckPTVer" /\ NotExist(last.pre, VersionFile)) => AnswersNotExist
    /\ (last.op \in {"RecursiveFiles", "NonRecursiveFiles", "copy", "DeletePairtreeItem"}
          /\ StatNotExist(last.pre, last.a)) => AnswersNotExist

C27_Witness ==
    /\ last.op = "DeletePairtreeItem"
    /\ last.a = ObjCD
    /\ StatNotExist(last.pre, ObjCD)
    /\ StatOk(fs, ObjAB)
    /\ AnswersNotExist

(***************************************************************************)
(* Claims about the default prefix                                         *)
(***************************************************************************)
\* the pairtree of the run is in order and has no prefix file
NoPrefixFile == RootValid /\ GetPrefix(last.pre, last.root).prefix = <<>>

\* the pairpath of an identifier under the default prefix
DefaultPP(id) == CreatePP(id, last.root, PtPrefix)

\* C24: when the pairtree has no prefix file, ls, rm, cp and mv take pt://
\* for the prefix: ls and rm reject an identifier that does not start with
\* pt:// and work on the pairpath of what follows pt:// otherwise; cp and mv
\* take the argument that starts with pt:// for the identifier, resolve it
\* to the pairpath of what follows pt://, and reject a pair of arguments of
\* which none starts with pt://.
C24_DefaultPrefix ==
    NoPrefixFile =>
        /\ last.op = "ls" =>
              IF HasPrefix(last.a, PtPrefix)
              THEN last.err # "Err5" /\ (last.err = "nil" => last.out = DefaultPP(last.a).path)
              ELSE last.err = "Err5"
        /\ (last.op = "rm" /\ Len(last.args) \in {1, 2}) =>
              IF HasPrefix(last.args[1], PtPrefix)
              THEN /\ last.err # "Err5"
                   /\ last.out = Join(DefaultPP(last.args[1]).path, last.c)
              ELSE last.err = "Err5"
        /\ (CmdDone /\ ~BothFlags) =>
              IF HasPrefix(last.a, PtPrefix)
              THEN DefaultPP(last.a).err = "nil"
                     => (last.fromPt /\ last.rsrc = Join(DefaultPP(last.a).path, last.c))
              ELSE IF HasPrefix(last.b, PtPrefix)
              THEN (DefaultPP(last.b).err = "nil" /\ last.err # "io")
                     => last.rdest = Join(DefaultPP(last.b).path, last.c)
              ELSE last.err = "Err10"

====
